---- MODULE Spec2Model ----
(***************************************************************************)
(* The tile-matching connection engine of the Link game                    *)
(* (src/game/js/games/linkgame/LinkGame.js, class LinkGameAlgorithm):      *)
(* canConnect / getConnectionPath and their helpers, applied to a grid of  *)
(* cells {row, col, pattern, visible, matched}.                            *)
(*                                                                         *)
(* A pattern is modelled by its id (the only field the algorithm reads);   *)
(* the null pattern is NoPattern.  A JavaScript value returned by          *)
(* canConnect is one of `true`, `false` or the object                      *)
(* {type, corners} that checkOneCorner / checkTwoCorners return, because   *)
(* canConnect returns the first truthy operand of its || chain.            *)
(* A property read on null/undefined (a TypeError in the program) is a     *)
(* field selection on the record Null, which has no such field: TLC stops  *)
(* with an evaluation error on it.                                         *)
(***************************************************************************)
EXTENDS Integers, Sequences, FiniteSets, TLC

\* Bounds of the model: the grids have at most MaxRows rows, MaxCols columns
\* and MaxCells cells, of which at most MaxTiles were filled, with at most
\* NumPatterns different patterns.
MaxRows == 3
MaxCols == 3
MaxCells == 9
MaxTiles == 4
NumPatterns == 2

\* The grids on which the whole board is enumerated have at most
\* MaxPairCells cells.
MaxPairCells == 6

\* The boards that are generated have at most MaxGenCells cells.
MaxGenCells == 4

\* The snake eats at most MaxScore food items in the runs that are explored.
MaxScore == 2

\* The boards that are played have at most MaxPlayCells cells.
MaxPlayCells == 4

\* A game of Link has MaxLevels levels.
MaxLevels == 2

\* A level lasts MaxTime seconds.
MaxTime == 2

VARIABLES grid, op, arg1, arg2, result, path, pairs, hint, verdict, simulation,
          patternCount, retryCount, isSolvable, attempts, deepReshuffles,
          game, touch, screen, lastUpdate, called,
          selectedCell, hintCell, gameStarted, isGameOver,
          isRunning, currentLevel, timeLeft, levelConfigs, levelBoards,
          hintButton

\* The variables of board generation.
genVars == <<patternCount, retryCount, isSolvable, attempts, deepReshuffles>>

\* The variables of the Snake game: the game object, the touch it was last
\* handed, the screen render drew last, whether the last update executed the
\* game logic, and the method called last.
snakeVars == <<game, touch, screen, lastUpdate, called>>

\* The variables of a game of Link: the selection, the hint, the flags of
\* the game, the level, the clock, the number of patterns of every level,
\* the boards fillGridWithPatterns can generate for every level, and whether
\* the hint button was drawn.
playVars == <<selectedCell, hintCell, gameStarted, isGameOver,
              isRunning, currentLevel, timeLeft, levelConfigs, levelBoards,
              hintButton>>

vars == <<grid, op, arg1, arg2, result, path, pairs, hint, verdict, simulation, genVars,
          snakeVars, playVars>>

(***************************************************************************)
(* Values                                                                  *)
(***************************************************************************)
NoPattern == 0

Null == [isNull |-> TRUE]

NullPath == <<>>

JsTrue == [type |-> "true", corners |-> <<>>]

JsFalse == [type |-> "false", corners |-> <<>>]

NotCalled == [type |-> "not-called", corners |-> <<>>]

\* JavaScript truthiness of a value canConnect can return.
Truthy(v) == v.type # "false"

Min(a, b) == IF a < b THEN a ELSE b

Max(a, b) == IF a > b THEN a ELSE b

(***************************************************************************)
(* Cells and grids                                                         *)
(***************************************************************************)
\* A cell as initializeGrid creates it and fillGridWithPatterns leaves it
\* when no pattern is assigned to it.
EmptyCell(row, col) ==
  [row |-> row, col |-> col, pattern |-> NoPattern, visible |-> FALSE, matched |-> TRUE]

\* A cell as fillGridWithPatterns fills it.
TileCell(row, col, p) ==
  [row |-> row, col |-> col, pattern |-> p, visible |-> TRUE, matched |-> FALSE]

\* A filled cell after tryConnectCells removed it: it keeps its pattern.
MatchedCell(row, col, p) ==
  [row |-> row, col |-> col, pattern |-> p, visible |-> TRUE, matched |-> TRUE]

\* new LinkGameAlgorithm(grid)
LinkGameAlgorithm(g) ==
  [grid |-> g,
   gridRows |-> Cardinality(DOMAIN g),
   gridCols |-> Cardinality(DOMAIN g[0])]

(***************************************************************************)
(* LinkGameAlgorithm: the live-grid connectivity check                     *)
(***************************************************************************)
isCellEmpty(this, row, col) ==
  IF row < 0 \/ row >= this.gridRows \/ col < 0 \/ col >= this.gridCols
  THEN FALSE
  ELSE LET cell == this.grid[row][col]
       IN  ~cell.visible \/ cell.matched

\* isValidCorner that accepts every cell inside the grid (mutant).
isValidCorner_AnyCellInside(this, corner) ==
  /\ corner.row >= 0 /\ corner.row < this.gridRows
  /\ corner.col >= 0 /\ corner.col < this.gridCols

isValidCorner(this, corner) == isCellEmpty(this, corner.row, corner.col)

\* isValidCell without the upper bounds (mutant).
isValidCell_NoUpperBounds(this, cell) ==
  IF cell = Null THEN FALSE
  ELSE IF cell.row < 0 THEN FALSE
  ELSE IF cell.col < 0 THEN FALSE
  ELSE TRUE

isValidCell(this, cell) ==
  IF cell = Null THEN FALSE
  ELSE IF cell.row < 0 \/ cell.row >= this.gridRows THEN FALSE
  ELSE IF cell.col < 0 \/ cell.col >= this.gridCols THEN FALSE
  ELSE TRUE

\* checkHorizontalLine whose loop starts one column late (mutant).
checkHorizontalLine_StartsLate(this, cell1, cell2) ==
  LET minCol == Min(cell1.col, cell2.col)
      maxCol == Max(cell1.col, cell2.col)
  IN  \A col \in (minCol + 2)..(maxCol - 1) : isCellEmpty(this, cell1.row, col)

checkHorizontalLine(this, cell1, cell2) ==
  LET minCol == Min(cell1.col, cell2.col)
      maxCol == Max(cell1.col, cell2.col)
  IN  \A col \in (minCol + 1)..(maxCol - 1) : isCellEmpty(this, cell1.row, col)

checkVerticalLine(this, cell1, cell2) ==
  LET minRow == Min(cell1.row, cell2.row)
      maxRow == Max(cell1.row, cell2.row)
  IN  \A row \in (minRow + 1)..(maxRow - 1) : isCellEmpty(this, row, cell1.col)

checkStraightLine(this, cell1, cell2) ==
  IF cell1.row = cell2.row THEN checkHorizontalLine(this, cell1, cell2)
  ELSE IF cell1.col = cell2.col THEN checkVerticalLine(this, cell1, cell2)
  ELSE FALSE

\* checkOneCorner that tries the first corner only (mutant).
checkOneCorner_FirstCornerOnly(this, cell1, cell2) ==
  LET corner1 == [row |-> cell1.row, col |-> cell2.col]
  IN  IF /\ isValidCorner(this, corner1)
         /\ checkStraightLine(this, cell1, corner1)
         /\ checkStraightLine(this, corner1, cell2)
      THEN [type |-> "one-corner", corners |-> <<corner1>>]
      ELSE JsFalse

\* checkOneCorner that tries the corners in the other order (mutant).
checkOneCorner_SecondCornerFirst(this, cell1, cell2) ==
  LET corner1 == [row |-> cell1.row, col |-> cell2.col]
      corner2 == [row |-> cell2.row, col |-> cell1.col]
  IN  IF /\ isValidCorner(this, corner2)
         /\ checkStraightLine(this, cell1, corner2)
         /\ checkStraightLine(this, corner2, cell2)
      THEN [type |-> "one-corner", corners |-> <<corner2>>]
      ELSE IF /\ isValidCorner(this, corner1)
              /\ checkStraightLine(this, cell1, corner1)
              /\ checkStraightLine(this, corner1, cell2)
      THEN [type |-> "one-corner", corners |-> <<corner1>>]
      ELSE JsFalse

checkOneCorner(this, cell1, cell2) ==
  LET corner1 == [row |-> cell1.row, col |-> cell2.col]
      corner2 == [row |-> cell2.row, col |-> cell1.col]
  IN  IF /\ isValidCorner(this, corner1)
         /\ checkStraightLine(this, cell1, corner1)
         /\ checkStraightLine(this, corner1, cell2)
      THEN [type |-> "one-corner", corners |-> <<corner1>>]
      ELSE IF /\ isValidCorner(this, corner2)
              /\ checkStraightLine(this, cell1, corner2)
              /\ checkStraightLine(this, corner2, cell2)
      THEN [type |-> "one-corner", corners |-> <<corner2>>]
      ELSE JsFalse

\* The rows the first loop of checkTwoCorners returns on.
TwoCornerRows(this, cell1, cell2) ==
  {row \in 0..(this.gridRows - 1) :
     /\ row # cell1.row /\ row # cell2.row
     /\ isValidCorner(this, [row |-> row, col |-> cell1.col])
     /\ isValidCorner(this, [row |-> row, col |-> cell2.col])
     /\ checkStraightLine(this, cell1, [row |-> row, col |-> cell1.col])
     /\ checkHorizontalLine(this, [row |-> row, col |-> cell1.col],
                                  [row |-> row, col |-> cell2.col])
     /\ checkStraightLine(this, [row |-> row, col |-> cell2.col], cell2)}

\* The columns the second loop of checkTwoCorners returns on.
TwoCornerCols(this, cell1, cell2) ==
  {col \in 0..(this.gridCols - 1) :
     /\ col # cell1.col /\ col # cell2.col
     /\ isValidCorner(this, [row |-> cell1.row, col |-> col])
     /\ isValidCorner(this, [row |-> cell2.row, col |-> col])
     /\ checkStraightLine(this, cell1, [row |-> cell1.row, col |-> col])
     /\ checkVerticalLine(this, [row |-> cell1.row, col |-> col],
                                [row |-> cell2.row, col |-> col])
     /\ checkStraightLine(this, [row |-> cell2.row, col |-> col], cell2)}

\* The loops scan in ascending order and return on the first success.
First(S) == CHOOSE x \in S : \A y \in S : x <= y

\* checkTwoCorners without its column scan (mutant).
checkTwoCorners_RowScanOnly(this, cell1, cell2) ==
  LET rows == TwoCornerRows(this, cell1, cell2)
  IN  IF rows # {}
      THEN [type |-> "two-corners",
            corners |-> <<[row |-> First(rows), col |-> cell1.col],
                          [row |-> First(rows), col |-> cell2.col]>>]
      ELSE JsFalse

\* checkTwoCorners returning its two corners in the opposite order (mutant).
checkTwoCorners_CornersSwapped(this, cell1, cell2) ==
  LET rows == TwoCornerRows(this, cell1, cell2)
      cols == TwoCornerCols(this, cell1, cell2)
  IN  IF rows # {}
      THEN [type |-> "two-corners",
            corners |-> <<[row |-> First(rows), col |-> cell2.col],
                          [row |-> First(rows), col |-> cell1.col]>>]
      ELSE IF cols # {}
      THEN [type |-> "two-corners",
            corners |-> <<[row |-> cell2.row, col |-> First(cols)],
                          [row |-> cell1.row, col |-> First(cols)]>>]
      ELSE JsFalse

\* checkTwoCorners scanning the columns before the rows (mutant).
checkTwoCorners_ColumnScanFirst(this, cell1, cell2) ==
  LET rows == TwoCornerRows(this, cell1, cell2)
      cols == TwoCornerCols(this, cell1, cell2)
  IN  IF cols # {}
      THEN [type |-> "two-corners",
            corners |-> <<[row |-> cell1.row, col |-> First(cols)],
                          [row |-> cell2.row, col |-> First(cols)]>>]
      ELSE IF rows # {}
      THEN [type |-> "two-corners",
            corners |-> <<[row |-> First(rows), col |-> cell1.col],
                          [row |-> First(rows), col |-> cell2.col]>>]
      ELSE JsFalse

checkTwoCorners(this, cell1, cell2) ==
  LET rows == TwoCornerRows(this, cell1, cell2)
      cols == TwoCornerCols(this, cell1, cell2)
  IN  IF rows # {}
      THEN [type |-> "two-corners",
            corners |-> <<[row |-> First(rows), col |-> cell1.col],
                          [row |-> First(rows), col |-> cell2.col]>>]
      ELSE IF cols # {}
      THEN [type |-> "two-corners",
            corners |-> <<[row |-> cell1.row, col |-> First(cols)],
                          [row |-> cell2.row, col |-> First(cols)]>>]
      ELSE JsFalse

\* canConnect without the cell1 === cell2 test (mutant).
canConnect_NoSelfTest(this, cell1, cell2) ==
  IF ~isValidCell(this, cell1) \/ ~isValidCell(this, cell2) THEN JsFalse
  ELSE IF cell1.pattern = NoPattern \/ cell2.pattern = NoPattern THEN JsFalse
  ELSE IF cell1.pattern # cell2.pattern THEN JsFalse
  ELSE IF checkStraightLine(this, cell1, cell2) THEN JsTrue
  ELSE IF Truthy(checkOneCorner(this, cell1, cell2))
       THEN checkOneCorner(this, cell1, cell2)
  ELSE checkTwoCorners(this, cell1, cell2)

\* canConnect without the comparison of the pattern ids (mutant).
canConnect_NoIdTest(this, cell1, cell2) ==
  IF ~isValidCell(this, cell1) \/ ~isValidCell(this, cell2) THEN JsFalse
  ELSE IF cell1 = cell2 THEN JsFalse
  ELSE IF cell1.pattern = NoPattern \/ cell2.pattern = NoPattern THEN JsFalse
  ELSE IF checkStraightLine(this, cell1, cell2) THEN JsTrue
  ELSE IF Truthy(checkOneCorner(this, cell1, cell2))
       THEN checkOneCorner(this, cell1, cell2)
  ELSE checkTwoCorners(this, cell1, cell2)

canConnect(this, cell1, cell2) ==
  IF ~isValidCell(this, cell1) \/ ~isValidCell(this, cell2) THEN JsFalse
  ELSE IF cell1 = cell2 THEN JsFalse
  ELSE IF cell1.pattern = NoPattern \/ cell2.pattern = NoPattern THEN JsFalse
  ELSE IF cell1.pattern # cell2.pattern THEN JsFalse
  ELSE IF checkStraightLine(this, cell1, cell2) THEN JsTrue
  ELSE IF Truthy(checkOneCorner(this, cell1, cell2))
       THEN checkOneCorner(this, cell1, cell2)
  ELSE checkTwoCorners(this, cell1, cell2)

\* getConnectionPath without its two-corner case (mutant).
getConnectionPath_NoTwoCorners(this, cell1, cell2) ==
  IF checkStraightLine(this, cell1, cell2)
  THEN <<[x |-> cell1.col, y |-> cell1.row], [x |-> cell2.col, y |-> cell2.row]>>
  ELSE LET oneCornerResult == checkOneCorner(this, cell1, cell2)
       IN  IF Truthy(oneCornerResult)
           THEN LET corner == oneCornerResult.corners[1]
                IN  <<[x |-> cell1.col, y |-> cell1.row],
                      [x |-> corner.col, y |-> corner.row],
                      [x |-> cell2.col, y |-> cell2.row]>>
           ELSE NullPath

\* getConnectionPath without its one-corner case (mutant).
getConnectionPath_NoOneCorner(this, cell1, cell2) ==
  IF checkStraightLine(this, cell1, cell2)
  THEN <<[x |-> cell1.col, y |-> cell1.row], [x |-> cell2.col, y |-> cell2.row]>>
  ELSE LET twoCornersResult == checkTwoCorners(this, cell1, cell2)
       IN  IF Truthy(twoCornersResult)
           THEN LET corner1 == twoCornersResult.corners[1]
                    corner2 == twoCornersResult.corners[2]
                IN  <<[x |-> cell1.col, y |-> cell1.row],
                      [x |-> corner1.col, y |-> corner1.row],
                      [x |-> corner2.col, y |-> corner2.row],
                      [x |-> cell2.col, y |-> cell2.row]>>
           ELSE NullPath

getConnectionPath(this, cell1, cell2) ==
  IF checkStraightLine(this, cell1, cell2)
  THEN <<[x |-> cell1.col, y |-> cell1.row], [x |-> cell2.col, y |-> cell2.row]>>
  ELSE LET oneCornerResult == checkOneCorner(this, cell1, cell2)
           twoCornersResult == checkTwoCorners(this, cell1, cell2)
       IN  IF Truthy(oneCornerResult)
           THEN LET corner == oneCornerResult.corners[1]
                IN  <<[x |-> cell1.col, y |-> cell1.row],
                      [x |-> corner.col, y |-> corner.row],
                      [x |-> cell2.col, y |-> cell2.row]>>
           ELSE IF Truthy(twoCornersResult)
           THEN LET corner1 == twoCornersResult.corners[1]
                    corner2 == twoCornersResult.corners[2]
                IN  <<[x |-> cell1.col, y |-> cell1.row],
                      [x |-> corner1.col, y |-> corner1.row],
                      [x |-> corner2.col, y |-> corner2.row],
                      [x |-> cell2.col, y |-> cell2.row]>>
           ELSE NullPath

(***************************************************************************)
(* LinkGameAlgorithm: the connectivity check on a given grid, used by the  *)
(* elimination simulation                                                  *)
(***************************************************************************)
\* isCellEmptyInGrid that takes a removed tile for a tile (mutant).
isCellEmptyInGrid_RemovedTileBlocks(this, row, col, simulatedGrid) ==
  IF row < 0 \/ row >= this.gridRows \/ col < 0 \/ col >= this.gridCols
  THEN FALSE
  ELSE ~simulatedGrid[row][col].visible

isCellEmptyInGrid(this, row, col, simulatedGrid) ==
  IF row < 0 \/ row >= this.gridRows \/ col < 0 \/ col >= this.gridCols
  THEN FALSE
  ELSE LET cell == simulatedGrid[row][col]
       IN  ~cell.visible \/ cell.matched

isValidCornerInGrid(this, corner, simulatedGrid) ==
  isCellEmptyInGrid(this, corner.row, corner.col, simulatedGrid)

isValidCellInGrid(this, cell, simulatedGrid) ==
  IF cell = Null THEN FALSE
  ELSE IF cell.row < 0 \/ cell.row >= this.gridRows THEN FALSE
  ELSE IF cell.col < 0 \/ cell.col >= this.gridCols THEN FALSE
  ELSE TRUE

checkHorizontalLineInGrid(this, cell1, cell2, simulatedGrid) ==
  LET minCol == Min(cell1.col, cell2.col)
      maxCol == Max(cell1.col, cell2.col)
  IN  \A col \in (minCol + 1)..(maxCol - 1) :
        isCellEmptyInGrid(this, cell1.row, col, simulatedGrid)

checkVerticalLineInGrid(this, cell1, cell2, simulatedGrid) ==
  LET minRow == Min(cell1.row, cell2.row)
      maxRow == Max(cell1.row, cell2.row)
  IN  \A row \in (minRow + 1)..(maxRow - 1) :
        isCellEmptyInGrid(this, row, cell1.col, simulatedGrid)

checkStraightLineInGrid(this, cell1, cell2, simulatedGrid) ==
  IF cell1.row = cell2.row
  THEN checkHorizontalLineInGrid(this, cell1, cell2, simulatedGrid)
  ELSE IF cell1.col = cell2.col
  THEN checkVerticalLineInGrid(this, cell1, cell2, simulatedGrid)
  ELSE FALSE

checkOneCornerInGrid(this, cell1, cell2, simulatedGrid) ==
  LET corner1 == [row |-> cell1.row, col |-> cell2.col]
      corner2 == [row |-> cell2.row, col |-> cell1.col]
  IN  \/ /\ isValidCornerInGrid(this, corner1, simulatedGrid)
         /\ checkStraightLineInGrid(this, cell1, corner1, simulatedGrid)
         /\ checkStraightLineInGrid(this, corner1, cell2, simulatedGrid)
      \/ /\ isValidCornerInGrid(this, corner2, simulatedGrid)
         /\ checkStraightLineInGrid(this, cell1, corner2, simulatedGrid)
         /\ checkStraightLineInGrid(this, corner2, cell2, simulatedGrid)

checkTwoCornersInGrid(this, cell1, cell2, simulatedGrid) ==
  \/ \E row \in 0..(this.gridRows - 1) :
       /\ row # cell1.row /\ row # cell2.row
       /\ isValidCornerInGrid(this, [row |-> row, col |-> cell1.col], simulatedGrid)
       /\ isValidCornerInGrid(this, [row |-> row, col |-> cell2.col], simulatedGrid)
       /\ checkStraightLineInGrid(this, cell1, [row |-> row, col |-> cell1.col],
                                  simulatedGrid)
       /\ checkHorizontalLineInGrid(this, [row |-> row, col |-> cell1.col],
                                    [row |-> row, col |-> cell2.col], simulatedGrid)
       /\ checkStraightLineInGrid(this, [row |-> row, col |-> cell2.col], cell2,
                                  simulatedGrid)
  \/ \E col \in 0..(this.gridCols - 1) :
       /\ col # cell1.col /\ col # cell2.col
       /\ isValidCornerInGrid(this, [row |-> cell1.row, col |-> col], simulatedGrid)
       /\ isValidCornerInGrid(this, [row |-> cell2.row, col |-> col], simulatedGrid)
       /\ checkStraightLineInGrid(this, cell1, [row |-> cell1.row, col |-> col],
                                  simulatedGrid)
       /\ checkVerticalLineInGrid(this, [row |-> cell1.row, col |-> col],
                                  [row |-> cell2.row, col |-> col], simulatedGrid)
       /\ checkStraightLineInGrid(this, [row |-> cell2.row, col |-> col], cell2,
                                  simulatedGrid)

canConnectInGrid(this, cell1, cell2, simulatedGrid) ==
  IF \/ ~isValidCellInGrid(this, cell1, simulatedGrid)
     \/ ~isValidCellInGrid(this, cell2, simulatedGrid)
  THEN FALSE
  ELSE IF cell1 = cell2 THEN FALSE
  ELSE IF cell1.pattern = NoPattern \/ cell2.pattern = NoPattern THEN FALSE
  ELSE IF cell1.pattern # cell2.pattern THEN FALSE
  ELSE IF cell1.matched \/ cell2.matched THEN FALSE
  ELSE \/ checkStraightLineInGrid(this, cell1, cell2, simulatedGrid)
       \/ checkOneCornerInGrid(this, cell1, cell2, simulatedGrid)
       \/ checkTwoCornersInGrid(this, cell1, cell2, simulatedGrid)

(***************************************************************************)
(* The enumeration of the connectable pairs and the hint                   *)
(***************************************************************************)
\* The cells of the grid in the order of the row and column loops.
CellsInScanOrder(this) ==
  [k \in 1..(this.gridRows * this.gridCols) |->
     this.grid[(k - 1) \div this.gridCols][(k - 1) % this.gridCols]]

\* getVisibleCells that keeps the matched cells (mutant).
getVisibleCells_MatchedKept(this) ==
  SelectSeq(CellsInScanOrder(this), LAMBDA cell : cell.visible)

getVisibleCells(this) ==
  SelectSeq(CellsInScanOrder(this), LAMBDA cell : cell.visible /\ ~cell.matched)

\* patternGroups[patternId]: the cells of one pattern, in scan order.
PatternGroup(visibleCells, patternId) ==
  SelectSeq(visibleCells, LAMBDA cell : cell.pattern = patternId)

\* The keys of patternGroups: the ids of the cells that have a pattern.
PatternIds(visibleCells) ==
  {visibleCells[k].pattern : k \in 1..Len(visibleCells)} \ {NoPattern}

RECURSIVE GroupPairs_EveryJ(_, _, _, _)
\* The pair loops with the inner loop starting at 0 instead of i + 1 (mutant).
GroupPairs_EveryJ(this, cells, i, j) ==
  IF i > Len(cells) THEN <<>>
  ELSE IF j > Len(cells) THEN GroupPairs_EveryJ(this, cells, i + 1, 1)
  ELSE (IF Truthy(canConnect(this, cells[i], cells[j]))
        THEN <<[cell1 |-> cells[i], cell2 |-> cells[j]]>>
        ELSE <<>>) \o GroupPairs_EveryJ(this, cells, i, j + 1)

RECURSIVE GroupPairs(_, _, _, _)
\* The loops over i and j > i of one group, from position (i, j) on: the
\* pairs {cell1, cell2} pushed, in order.
GroupPairs(this, cells, i, j) ==
  IF i > Len(cells) THEN <<>>
  ELSE IF j > Len(cells) THEN GroupPairs(this, cells, i + 1, i + 2)
  ELSE (IF Truthy(canConnect(this, cells[i], cells[j]))
        THEN <<[cell1 |-> cells[i], cell2 |-> cells[j]]>>
        ELSE <<>>) \o GroupPairs(this, cells, i, j + 1)

RECURSIVE AllGroupPairs(_, _, _)
\* The loop over the groups: for-in visits integer keys in ascending order.
AllGroupPairs(this, visibleCells, patternIds) ==
  IF patternIds = {} THEN <<>>
  ELSE GroupPairs(this, PatternGroup(visibleCells, First(patternIds)), 1, 2)
         \o AllGroupPairs(this, visibleCells, patternIds \ {First(patternIds)})

findAllConnectablePairs(this) ==
  LET visibleCells == getVisibleCells(this)
  IN  AllGroupPairs(this, visibleCells, PatternIds(visibleCells))

\* randomInt that can return max + 1 (mutant).
randomInt_AboveMax(min, max) == min..(max + 1)

\* The values randomInt(min, max) can return.
randomInt(min, max) == min..max

\* array[index] of JavaScript: undefined outside the array.
ArrayAt(array, index) ==
  IF index + 1 \in DOMAIN array THEN array[index + 1] ELSE Null

\* The values findHint can return.
findHint(this) ==
  LET prs == findAllConnectablePairs(this)
  IN  IF Len(prs) > 0
      THEN {ArrayAt(prs, randomIndex) : randomIndex \in randomInt(0, Len(prs) - 1)}
      ELSE {Null}

(***************************************************************************)
(* The solvability check.  It writes to cell objects, so the cells live in *)
(* a heap: a reference <<"live", row, col>> is the cell object of the live *)
(* grid at that position, <<"copy", row, col>> the object createGridCopy   *)
(* allocates for it.  A grid of references is an array of rows of cell     *)
(* objects.                                                                *)
(***************************************************************************)
\* The heap that holds the cell objects of the live grid.
LiveHeap(g) ==
  [ref \in {<<"live", row, col>> : row \in DOMAIN g, col \in DOMAIN g[0]} |->
     g[ref[2]][ref[3]]]

\* this.grid as an array of references.
LiveRefs(this) ==
  [row \in 0..(this.gridRows - 1) |->
    [col \in 0..(this.gridCols - 1) |-> <<"live", row, col>>]]

\* The cells a grid of references holds.
Deref(heap, refs) ==
  [row \in DOMAIN refs |-> [col \in DOMAIN refs[row] |-> heap[refs[row][col]]]]

getVisibleCellsFromGrid(this, simulatedGrid) ==
  SelectSeq([k \in 1..(this.gridRows * this.gridCols) |->
               simulatedGrid[(k - 1) \div this.gridCols][(k - 1) % this.gridCols]],
            LAMBDA cell : cell.visible /\ ~cell.matched)

RECURSIVE GroupPairsInGrid(_, _, _, _, _)
\* The loops over i and j > i of findAllConnectablePairsInGrid.
GroupPairsInGrid(this, cells, i, j, simulatedGrid) ==
  IF i > Len(cells) THEN <<>>
  ELSE IF j > Len(cells) THEN GroupPairsInGrid(this, cells, i + 1, i + 2, simulatedGrid)
  ELSE (IF canConnectInGrid(this, cells[i], cells[j], simulatedGrid)
        THEN <<[cell1 |-> cells[i], cell2 |-> cells[j]]>>
        ELSE <<>>) \o GroupPairsInGrid(this, cells, i, j + 1, simulatedGrid)

RECURSIVE AllGroupPairsInGrid(_, _, _, _)
AllGroupPairsInGrid(this, visibleCells, patternIds, simulatedGrid) ==
  IF patternIds = {} THEN <<>>
  ELSE GroupPairsInGrid(this, PatternGroup(visibleCells, First(patternIds)), 1, 2,
                        simulatedGrid)
         \o AllGroupPairsInGrid(this, visibleCells, patternIds \ {First(patternIds)},
                                simulatedGrid)

findAllConnectablePairsInGrid(this, simulatedGrid) ==
  LET visibleCells == getVisibleCellsFromGrid(this, simulatedGrid)
  IN  AllGroupPairsInGrid(this, visibleCells, PatternIds(visibleCells), simulatedGrid)

\* validateGameState that accepts every count (mutant).
validateGameState_NoParityTest(this) == TRUE

\* Every pattern is on an even number of visible unmatched cells.
validateGameState(this) ==
  LET visibleCells == getVisibleCells(this)
  IN  \A patternId \in PatternIds(visibleCells) :
        Len(PatternGroup(visibleCells, patternId)) % 2 = 0

\* createGridCopy that copies the rows but keeps the cell objects (mutant).
createGridCopy_CellsShared(this, heap) ==
  [refs |-> LiveRefs(this), heap |-> heap]

\* createGridCopy: a new cell object for every position, with the fields of
\* the live cell.  Returns the copy and the heap that holds it.
createGridCopy(this, heap) ==
  LET copyRefs == [row \in 0..(this.gridRows - 1) |->
                    [col \in 0..(this.gridCols - 1) |-> <<"copy", row, col>>]]
      copies == {<<"copy", row, col>> : row \in 0..(this.gridRows - 1),
                                        col \in 0..(this.gridCols - 1)}
  IN  [refs |-> copyRefs,
       heap |-> [ref \in DOMAIN heap \cup copies |->
                   IF ref \in copies
                   THEN LET originalCell == heap[<<"live", ref[2], ref[3]>>]
                        IN  [row |-> ref[2], col |-> ref[3],
                             pattern |-> originalCell.pattern,
                             visible |-> originalCell.visible,
                             matched |-> originalCell.matched]
                   ELSE heap[ref]]]

\* No cell is marked (mutant).
MarkMatched_NoCellMarked(heap, refs, pair) == heap

\* Only pair.cell1.matched = true (mutant).
MarkMatched_FirstCellOnly(heap, refs, pair) ==
  [ref \in DOMAIN heap |->
     IF ref = refs[pair.cell1.row][pair.cell1.col]
     THEN [heap[ref] EXCEPT !.matched = TRUE]
     ELSE heap[ref]]

\* pair.cell1.matched = true; pair.cell2.matched = true, on the objects of
\* the grid the pair was found in.
MarkMatched(heap, refs, pair) ==
  [ref \in DOMAIN heap |->
     IF ref \in {refs[pair.cell1.row][pair.cell1.col], refs[pair.cell2.row][pair.cell2.col]}
     THEN [heap[ref] EXCEPT !.matched = TRUE]
     ELSE heap[ref]]

RECURSIVE simulateElimination_AnyEnd(_, _, _, _, _)
\* simulateElimination reporting success when no pair is left, whatever
\* remains (mutant).
simulateElimination_AnyEnd(this, refs, heap, iteration, eliminatedCount) ==
  LET simulatedGrid == Deref(heap, refs)
      connectablePairs == findAllConnectablePairsInGrid(this, simulatedGrid)
  IN  IF iteration >= this.gridRows * this.gridCols * 2
      THEN [returns |-> FALSE, heap |-> heap,
            iterations |-> iteration, exhausted |-> TRUE]
      ELSE IF Len(connectablePairs) = 0
      THEN [returns |-> TRUE, heap |-> heap,
            iterations |-> iteration + 1, exhausted |-> FALSE]
      ELSE IF eliminatedCount + 2 >= this.gridRows * this.gridCols
      THEN [returns |-> TRUE, heap |-> MarkMatched(heap, refs, connectablePairs[1]),
            iterations |-> iteration + 1, exhausted |-> FALSE]
      ELSE simulateElimination_AnyEnd(this, refs,
                                      MarkMatched(heap, refs, connectablePairs[1]),
                                      iteration + 1, eliminatedCount + 2)

RECURSIVE simulateElimination(_, _, _, _, _)
\* The loop of simulateElimination from the given iteration on: the value
\* returned, the heap it leaves, the number of iterations of the loop that
\* were entered, and whether the return is the one after the loop, reached
\* when maxIterations iterations have run.
simulateElimination(this, refs, heap, iteration, eliminatedCount) ==
  LET simulatedGrid == Deref(heap, refs)
      connectablePairs == findAllConnectablePairsInGrid(this, simulatedGrid)
  IN  IF iteration >= this.gridRows * this.gridCols * 2
      THEN [returns |-> FALSE, heap |-> heap,
            iterations |-> iteration, exhausted |-> TRUE]
      ELSE IF Len(connectablePairs) = 0
      THEN [returns |-> Len(getVisibleCellsFromGrid(this, simulatedGrid)) = 0,
            heap |-> heap,
            iterations |-> iteration + 1, exhausted |-> FALSE]
      ELSE IF eliminatedCount + 2 >= this.gridRows * this.gridCols
      THEN [returns |-> TRUE, heap |-> MarkMatched(heap, refs, connectablePairs[1]),
            iterations |-> iteration + 1, exhausted |-> FALSE]
      ELSE simulateElimination(this, refs,
                               MarkMatched(heap, refs, connectablePairs[1]),
                               iteration + 1, eliminatedCount + 2)

\* isBoardSolvable: the value returned and the heap it leaves.
isBoardSolvable(this) ==
  IF ~validateGameState(this)
  THEN [returns |-> FALSE, heap |-> LiveHeap(this.grid),
        iterations |-> 0, exhausted |-> FALSE]
  ELSE LET copy == createGridCopy(this, LiveHeap(this.grid))
       IN  simulateElimination(this, copy.refs, copy.heap, 0, 0)

(***************************************************************************)
(* The inputs: grids and cell arguments                                    *)
(***************************************************************************)
Positions(rows, cols) == (0..(rows - 1)) \X (0..(cols - 1))

\* Row-major order of positions, the order in which the grid is filled.
Before(p, q) == p[1] < q[1] \/ (p[1] = q[1] /\ p[2] < q[2])

\* The assignments of pattern ids to the filled positions S.  Pattern ids
\* are only ever compared for equality, so one assignment per renaming of
\* the ids is drawn: the one whose ids appear in increasing order.
Labellings(S) ==
  {f \in [S -> 1..NumPatterns] :
     \A p \in S : \A k \in 1..(f[p] - 1) : \E q \in S : Before(q, p) /\ f[q] = k}

\* What gameplay has removed so far: nothing, or one pair of equal pattern.
Removals(S, f) ==
  {{}} \cup {pq \in SUBSET S :
               /\ Cardinality(pq) = 2
               /\ \A p \in pq, q \in pq : f[p] = f[q]}

\* The grid of the given size whose positions in S were filled with the
\* patterns f and of which the positions in removed have been matched.
MakeGrid(rows, cols, S, f, removed) ==
  [row \in 0..(rows - 1) |->
    [col \in 0..(cols - 1) |->
      IF <<row, col>> \in removed THEN MatchedCell(row, col, f[<<row, col>>])
      ELSE IF <<row, col>> \in S THEN TileCell(row, col, f[<<row, col>>])
      ELSE EmptyCell(row, col)]]

\* The cell objects of a grid: the arguments gameplay passes to the algorithm.
GridCells(g) == {g[row][col] : row \in DOMAIN g, col \in DOMAIN g[0]}

\* Cell objects that lie outside the grid, one beyond each border.
OutsideCells(g) ==
  LET rows == Cardinality(DOMAIN g)
      cols == Cardinality(DOMAIN g[0])
  IN  {TileCell(-1, 0, 1), TileCell(rows, 0, 1),
       TileCell(0, -1, 1), TileCell(0, cols, 1)}

InvalidArgs(g) == {Null} \cup OutsideCells(g)

\* No run of simulateElimination was recorded.
NoSimulation == [iterations |-> 0, exhausted |-> FALSE]

\* No call of the algorithm has been made.
NoCallYet ==
  /\ arg1 = Null
  /\ arg2 = Null
  /\ result = NotCalled
  /\ path = NullPath
  /\ pairs = <<>>
  /\ hint = Null
  /\ verdict = FALSE
  /\ simulation = NoSimulation

\* The grid was handed over as it is; board generation is not running.
NoGeneration ==
  /\ patternCount = 0
  /\ retryCount = 0
  /\ isSolvable = FALSE
  /\ attempts = 0
  /\ deepReshuffles = 0

\* No game of Link was created.
NoPlay ==
  /\ selectedCell = Null
  /\ hintCell = Null
  /\ gameStarted = FALSE
  /\ isGameOver = FALSE
  /\ isRunning = FALSE
  /\ currentLevel = 0
  /\ timeLeft = 0
  /\ levelConfigs = <<>>
  /\ levelBoards = <<>>
  /\ hintButton = FALSE

\* No Snake game was created.
NoSnake ==
  /\ game = Null
  /\ touch = Null
  /\ screen = "none"
  /\ lastUpdate = "none"
  /\ called = "none"

\* The grids handed to the constructor of LinkGameAlgorithm (an exported
\* class that takes any grid): every size within the bounds, every set of
\* filled positions, every assignment of patterns, before or after one
\* removal.  A position that was never filled and a removed tile are both
\* empty cells for the algorithm.
Init ==
  /\ \E rows \in 1..MaxRows, cols \in 1..MaxCols :
       /\ rows * cols <= MaxCells
       /\ \E S \in SUBSET Positions(rows, cols) :
            /\ Cardinality(S) <= MaxTiles
            /\ \E f \in Labellings(S) :
                 \E removed \in Removals(S, f) :
                   grid = MakeGrid(rows, cols, S, f, removed)
  /\ op = "idle"
  /\ NoCallYet
  /\ NoGeneration
  /\ NoSnake
  /\ NoPlay

(***************************************************************************)
(* The calls.  Each input grid receives one call, whose arguments and      *)
(* return value are recorded.                                              *)
(***************************************************************************)
CanConnect(a, b) ==
  /\ op' = "canConnect"
  /\ arg1' = a
  /\ arg2' = b
  /\ result' = canConnect(LinkGameAlgorithm(grid), a, b)
  /\ UNCHANGED <<grid, path, pairs, hint, verdict, simulation, genVars, snakeVars, playVars>>

GetConnectionPath(a, b) ==
  /\ op' = "getConnectionPath"
  /\ arg1' = a
  /\ arg2' = b
  /\ path' = getConnectionPath(LinkGameAlgorithm(grid), a, b)
  /\ UNCHANGED <<grid, result, pairs, hint, verdict, simulation, genVars, snakeVars, playVars>>

\* canConnect on two cells of the grid.
Next ==
  /\ op = "idle"
  /\ \E a \in GridCells(grid), b \in GridCells(grid) : CanConnect(a, b)

Spec == Init /\ [][Next]_vars

\* getConnectionPath on two cells of the grid.
NextPath ==
  /\ op = "idle"
  /\ \E a \in GridCells(grid), b \in GridCells(grid) : GetConnectionPath(a, b)

SpecPath == Init /\ [][NextPath]_vars

\* canConnect with a missing or out-of-bounds argument.
NextInvalid ==
  /\ op = "idle"
  /\ \E a \in GridCells(grid) \cup InvalidArgs(grid),
        b \in GridCells(grid) \cup InvalidArgs(grid) :
       /\ a \in InvalidArgs(grid) \/ b \in InvalidArgs(grid)
       /\ CanConnect(a, b)

SpecInvalid == Init /\ [][NextInvalid]_vars

(***************************************************************************)
(* findAllConnectablePairs and findHint, called any number of times        *)
(***************************************************************************)
\* The same grids as Init, with every assignment of pattern ids: the order
\* of the enumeration depends on the ids.
InitPairs ==
  /\ \E rows \in 1..MaxRows, cols \in 1..MaxCols :
       /\ rows * cols <= MaxPairCells
       /\ \E S \in SUBSET Positions(rows, cols) :
            /\ Cardinality(S) <= MaxTiles
            /\ \E f \in [S -> 1..NumPatterns] :
                 \E removed \in Removals(S, f) :
                   grid = MakeGrid(rows, cols, S, f, removed)
  /\ op = "idle"
  /\ NoCallYet
  /\ NoGeneration
  /\ NoSnake
  /\ NoPlay

FindAllConnectablePairs ==
  /\ op' = "findAllConnectablePairs"
  /\ pairs' = findAllConnectablePairs(LinkGameAlgorithm(grid))
  /\ UNCHANGED <<grid, arg1, arg2, result, path, hint, verdict, simulation, genVars, snakeVars, playVars>>

FindHint ==
  /\ op' = "findHint"
  /\ hint' \in findHint(LinkGameAlgorithm(grid))
  /\ UNCHANGED <<grid, arg1, arg2, result, path, pairs, verdict, simulation, genVars, snakeVars, playVars>>

NextPairs == FindAllConnectablePairs \/ FindHint

SpecPairs == InitPairs /\ [][NextPairs]_vars

(***************************************************************************)
(* The solvability check, called once on a grid                            *)
(***************************************************************************)
IsBoardSolvable ==
  LET outcome == isBoardSolvable(LinkGameAlgorithm(grid))
  IN  /\ op' = "isBoardSolvable"
      /\ verdict' = outcome.returns
      /\ simulation' = [iterations |-> outcome.iterations,
                        exhausted |-> outcome.exhausted]
      /\ grid' = [row \in DOMAIN grid |->
                   [col \in DOMAIN grid[row] |-> outcome.heap[<<"live", row, col>>]]]
      /\ UNCHANGED <<arg1, arg2, result, path, pairs, hint, genVars, snakeVars, playVars>>

\* simulateElimination on a copy of the grid, as isBoardSolvable calls it,
\* whatever validateGameState says of the grid.
SimulateElimination ==
  LET this == LinkGameAlgorithm(grid)
      copy == createGridCopy(this, LiveHeap(grid))
      outcome == simulateElimination(this, copy.refs, copy.heap, 0, 0)
  IN  /\ op' = "simulateElimination"
      /\ verdict' = outcome.returns
      /\ simulation' = [iterations |-> outcome.iterations,
                        exhausted |-> outcome.exhausted]
      /\ grid' = [row \in DOMAIN grid |->
                   [col \in DOMAIN grid[row] |-> outcome.heap[<<"live", row, col>>]]]
      /\ UNCHANGED <<arg1, arg2, result, path, pairs, hint, genVars, snakeVars, playVars>>

NextSolvable == op = "idle" /\ (IsBoardSolvable \/ SimulateElimination)

SpecSolvable == InitPairs /\ [][NextSolvable]_vars

(***************************************************************************)
(* Board generation: LinkGame.fillGridWithPatterns                         *)
(***************************************************************************)
maxRetries == 100

\* The grid as the loops of initializeGrid leave it.
initializeGrid(rows, cols) ==
  [row \in 0..(rows - 1) |->
    [col \in 0..(cols - 1) |->
      [row |-> row, col |-> col, pattern |-> NoPattern,
       visible |-> FALSE, matched |-> FALSE]]]

\* patternPairs with every pattern pushed once (mutant).
PatternPairs_PushedOnce(count) == [k \in 1..count |-> k]

\* patternPairs before the shuffle: every available pattern twice.  The
\* available patterns are the first `count` of the library, ids 1..count.
PatternPairs(count) == [k \in 1..(2 * count) |-> (k + 1) \div 2]

\* shuffleArray that draws every element anew from the array (mutant).
shuffleArray_Resampled(array) ==
  [1..Len(array) -> {array[k] : k \in 1..Len(array)}]

\* The arrays shuffleArray can leave: every order of the elements.
shuffleArray(array) ==
  {[k \in 1..Len(array) |-> array[order[k]]] : order \in Permutations(1..Len(array))}

\* The fill loops without their else branch (mutant): the cells that get no
\* pattern stay as initializeGrid created them.
FillGrid_RestLeftAlone(g, patternPairs) ==
  LET cols == Cardinality(DOMAIN g[0])
      totalCells == Cardinality(DOMAIN g) * cols
  IN  [row \in DOMAIN g |->
        [col \in DOMAIN g[row] |->
          LET patternIndex == row * cols + col
          IN  IF patternIndex < Len(patternPairs) /\ patternIndex < totalCells
              THEN [g[row][col] EXCEPT !.pattern = patternPairs[patternIndex + 1],
                                       !.visible = TRUE,
                                       !.matched = FALSE]
              ELSE g[row][col]]]

\* The fill loops: the patterns go to the first cells in scan order, the
\* other cells are marked not visible and matched.
FillGrid(g, patternPairs) ==
  LET cols == Cardinality(DOMAIN g[0])
      totalCells == Cardinality(DOMAIN g) * cols
  IN  [row \in DOMAIN g |->
        [col \in DOMAIN g[row] |->
          LET patternIndex == row * cols + col
          IN  IF patternIndex < Len(patternPairs) /\ patternIndex < totalCells
              THEN [g[row][col] EXCEPT !.pattern = patternPairs[patternIndex + 1],
                                       !.visible = TRUE,
                                       !.matched = FALSE]
              ELSE [g[row][col] EXCEPT !.visible = FALSE, !.matched = TRUE]]]

\* The grids deepReshuffleGrid can leave: the patterns of the visible
\* unmatched cells, shuffled and dealt out again in scan order.
deepReshuffleGrid(g) ==
  LET visibleCells == getVisibleCells(LinkGameAlgorithm(g))
      withPattern == SelectSeq(visibleCells, LAMBDA cell : cell.pattern # NoPattern)
      patterns == [k \in 1..Len(withPattern) |-> withPattern[k].pattern]
      Index(cell) == CHOOSE k \in 1..Len(visibleCells) : visibleCells[k] = cell
  IN  {[row \in DOMAIN g |->
         [col \in DOMAIN g[row] |->
           IF /\ g[row][col].visible /\ ~g[row][col].matched
              /\ Index(g[row][col]) <= Len(shuffled)
           THEN [g[row][col] EXCEPT !.pattern = shuffled[Index(g[row][col])]]
           ELSE g[row][col]]] : shuffled \in shuffleArray(patterns)}

\* The validation of the board after a fill: the full-elimination
\* simulation on a copy of the grid.
strictBoardValidation(this) == isBoardSolvable(this).returns

\* The loop condition without the retry ceiling (mutant).
LoopCondition_NoCeiling(solvable, retries) == ~solvable

\* while (!isSolvable && retryCount < maxRetries)
LoopCondition(solvable, retries) == ~solvable /\ retries < maxRetries

\* The boards to generate: the size of the grid and the number of patterns
\* of the level, 2 * patternCount cells at most.
InitGen ==
  /\ \E rows \in 1..MaxRows, cols \in 1..MaxCols, count \in 1..MaxGenCells :
       /\ rows * cols <= MaxGenCells
       /\ 2 * count <= rows * cols
       /\ grid = initializeGrid(rows, cols)
       /\ patternCount = count
  /\ op = "filling"
  /\ retryCount = 0
  /\ isSolvable = FALSE
  /\ attempts = 0
  /\ deepReshuffles = 0
  /\ NoCallYet
  /\ NoSnake
  /\ NoPlay

\* The deep reshuffle at every failed simulation (mutant).
ReshuffleDue_EveryFailure(retries) == TRUE

\* if (retryCount >= maxRetries), after the increment of retryCount.
ReshuffleDue(retries) == retries >= maxRetries

\* The body of the while loop after the shuffle: what it leaves in the grid,
\* retryCount and isSolvable, and the number of calls of deepReshuffleGrid.
FillAndValidate(g, patternPairs, retries, solvableBefore) ==
  LET filled == FillGrid(g, patternPairs)
      patternValidation == validateGameState(LinkGameAlgorithm(filled))
      solvable == strictBoardValidation(LinkGameAlgorithm(filled))
  IN  IF Len(patternPairs) % 2 # 0
      THEN {[grid |-> g, retryCount |-> retries + 1,
             isSolvable |-> solvableBefore, deepReshuffles |-> 0]}
      ELSE IF ~patternValidation
      THEN {[grid |-> filled, retryCount |-> retries + 1,
             isSolvable |-> solvableBefore, deepReshuffles |-> 0]}
      ELSE IF solvable
      THEN {[grid |-> filled, retryCount |-> retries,
             isSolvable |-> TRUE, deepReshuffles |-> 0]}
      ELSE IF ReshuffleDue(retries + 1)
      THEN {[grid |-> reshuffled, retryCount |-> retries + 1,
             isSolvable |-> strictBoardValidation(LinkGameAlgorithm(reshuffled)),
             deepReshuffles |-> 1] : reshuffled \in deepReshuffleGrid(filled)}
      ELSE {[grid |-> filled, retryCount |-> retries + 1,
             isSolvable |-> FALSE, deepReshuffles |-> 0]}

\* One pass of the while loop.  attempts and deepReshuffles count the passes
\* and the calls of deepReshuffleGrid.
Attempt ==
  /\ op = "filling"
  /\ LoopCondition(isSolvable, retryCount)
  /\ attempts <= maxRetries
  /\ \E patternPairs \in shuffleArray(PatternPairs(patternCount)) :
       \E pass \in FillAndValidate(grid, patternPairs, retryCount, isSolvable) :
         /\ grid' = pass.grid
         /\ retryCount' = pass.retryCount
         /\ isSolvable' = pass.isSolvable
         /\ deepReshuffles' = deepReshuffles + pass.deepReshuffles
  /\ attempts' = attempts + 1
  /\ UNCHANGED <<op, patternCount, arg1, arg2, result, path, pairs, hint, verdict, simulation,
                 snakeVars, playVars>>

\* The loop is left and fillGridWithPatterns returns; the final validation
\* only logs.
Return ==
  /\ op = "filling"
  /\ ~LoopCondition(isSolvable, retryCount)
  /\ op' = "filled"
  /\ UNCHANGED <<grid, genVars, arg1, arg2, result, path, pairs, hint, verdict, simulation,
                 snakeVars, playVars>>

NextGen == Attempt \/ Return

SpecGen == InitGen /\ [][NextGen]_vars

(***************************************************************************)
(* Reshuffles: deepReshuffleGrid of the game, reshuffleGrid of the         *)
(* algorithm                                                               *)
(***************************************************************************)
\* What reshuffleGrid returns and the grids it can leave: the patterns of
\* the visible unmatched cells, shuffled once and dealt out again in scan
\* order.
reshuffleGrid(this) ==
  LET visibleCells == getVisibleCells(this)
      withPattern == SelectSeq(visibleCells, LAMBDA cell : cell.pattern # NoPattern)
      patterns == [k \in 1..Len(withPattern) |-> withPattern[k].pattern]
      Index(cell) == CHOOSE k \in 1..Len(visibleCells) : visibleCells[k] = cell
  IN  [returns |-> Len(patterns) > 0,
       grids |->
         {[row \in DOMAIN this.grid |->
            [col \in DOMAIN this.grid[row] |->
              LET cell == this.grid[row][col]
              IN  IF cell.visible /\ ~cell.matched /\ Index(cell) <= Len(shuffled)
                  THEN [cell EXCEPT !.pattern = shuffled[Index(cell)]]
                  ELSE cell]] : shuffled \in shuffleArray(patterns)}]

\* The grid is as the fill loops leave it and the pass of the loop goes on
\* to the deep reshuffle: the parity check passed, the simulation failed.
AfterFailedFill(g) ==
  LET cols == Cardinality(DOMAIN g[0])
      filled == Len(getVisibleCells(LinkGameAlgorithm(g)))
  IN  /\ \A row \in DOMAIN g, col \in DOMAIN g[0] :
           IF row * cols + col < filled
           THEN g[row][col].visible /\ ~g[row][col].matched
           ELSE g[row][col] = EmptyCell(row, col)
      /\ validateGameState(LinkGameAlgorithm(g))
      /\ ~strictBoardValidation(LinkGameAlgorithm(g))

ReshuffleGrid ==
  LET outcome == reshuffleGrid(LinkGameAlgorithm(grid))
  IN  /\ op' = "reshuffleGrid"
      /\ grid' \in outcome.grids
      /\ verdict' = outcome.returns
      /\ UNCHANGED <<arg1, arg2, result, path, pairs, hint, simulation, genVars, snakeVars, playVars>>

DeepReshuffleGrid ==
  /\ AfterFailedFill(grid)
  /\ op' = "deepReshuffleGrid"
  /\ grid' \in deepReshuffleGrid(grid)
  /\ UNCHANGED <<arg1, arg2, result, path, pairs, hint, verdict, simulation, genVars, snakeVars, playVars>>

NextReshuffle == ReshuffleGrid \/ DeepReshuffleGrid

SpecReshuffle == InitPairs /\ [][NextReshuffle]_vars

(***************************************************************************)
(* A game of Link: touches, hints, the clock, levels and restarts          *)
(***************************************************************************)
\* The levels of the game.
totalLevels == MaxLevels

\* The boards fillGridWithPatterns can leave in the grid: a fill that passes
\* validation on some pass of the loop, or the deep reshuffle of the fill
\* that failed on the last pass.
fillGridWithPatterns(g, count) ==
  LET fills == {FillGrid(g, patternPairs) :
                  patternPairs \in shuffleArray(PatternPairs(count))}
      passing == {filled \in fills :
                     /\ validateGameState(LinkGameAlgorithm(filled))
                     /\ strictBoardValidation(LinkGameAlgorithm(filled))}
  IN  passing \cup UNION {deepReshuffleGrid(filled) : filled \in fills \ passing}

\* A reference to a cell object.  The object is a cell of this.grid until
\* initializeGrid replaces the grid; from then on the reference is stale and
\* keeps the object as it was.
RefTo(cell) == [row |-> cell.row, col |-> cell.col, stale |-> FALSE, object |-> Null]

ObjectOf(g, ref) == IF ref.stale THEN ref.object ELSE g[ref.row][ref.col]

\* What becomes of a reference when this.grid is replaced.
Outlive(g, ref) ==
  IF ref = Null \/ ref.stale THEN ref
  ELSE [ref EXCEPT !.stale = TRUE, !.object = g[ref.row][ref.col]]

\* cell1 === cell2 for a reference and a cell of this.grid.
SameObject(ref, cell) == ~ref.stale /\ ref.row = cell.row /\ ref.col = cell.col

\* The touches: on the back button, on the hint button, or at a point, in
\* units of one cell with the grid at the origin.  The two buttons lie
\* outside the grid.  The points are one per cell, one left of the grid and
\* one on its right and one on its lower edge.
TouchInputs(g) ==
  LET gridRows == Cardinality(DOMAIN g)
      gridCols == Cardinality(DOMAIN g[0])
  IN  {[kind |-> "back", x |-> -1, y |-> -1], [kind |-> "hint", x |-> -1, y |-> -1]}
        \cup {[kind |-> "point", x |-> x, y |-> y] :
                x \in 0..(gridCols - 1), y \in 0..(gridRows - 1)}
        \cup {[kind |-> "point", x |-> -1, y |-> 0],
              [kind |-> "point", x |-> gridCols, y |-> 0],
              [kind |-> "point", x |-> 0, y |-> gridRows]}

getCellAtPosition(g, x, y) ==
  LET gridX == 0
      gridY == 0
      gridSize == 1
      gridRows == Cardinality(DOMAIN g)
      gridCols == Cardinality(DOMAIN g[0])
      col == (x - gridX) \div gridSize
      row == (y - gridY) \div gridSize
  IN  IF x < gridX \/ x > gridX + gridCols * gridSize
         \/ y < gridY \/ y > gridY + gridRows * gridSize
      THEN Null
      ELSE IF row >= 0 /\ row < gridRows /\ col >= 0 /\ col < gridCols
      THEN g[row][col]
      ELSE Null

\* The fields of the game that a click on a cell reads and writes.
ThisGame ==
  [grid |-> grid, selectedCell |-> selectedCell, hintCell |-> hintCell,
   connectionPath |-> path]

\* cell.matched = true on the object of a reference.
SetMatched(g, ref) ==
  IF ref.stale THEN g
  ELSE [g EXCEPT ![ref.row][ref.col] = [@ EXCEPT !.matched = TRUE]]

\* tryConnectCells that keeps the selection after a connection (mutant).
tryConnectCells_SelectionKept(this, cell1, cell2) ==
  LET algorithm == LinkGameAlgorithm(this.grid)
      c1 == ObjectOf(this.grid, cell1)
      c2 == ObjectOf(this.grid, cell2)
  IN  IF Truthy(canConnect(algorithm, c1, c2))
      THEN [this EXCEPT !.connectionPath = getConnectionPath(algorithm, c1, c2),
                        !.grid = SetMatched(SetMatched(this.grid, cell1), cell2),
                        !.hintCell = Null]
      ELSE [this EXCEPT !.selectedCell = cell2]

\* tryConnectCells that marks the second cell only (mutant).
tryConnectCells_SecondCellOnly(this, cell1, cell2) ==
  LET algorithm == LinkGameAlgorithm(this.grid)
      c1 == ObjectOf(this.grid, cell1)
      c2 == ObjectOf(this.grid, cell2)
  IN  IF Truthy(canConnect(algorithm, c1, c2))
      THEN [this EXCEPT !.connectionPath = getConnectionPath(algorithm, c1, c2),
                        !.grid = SetMatched(this.grid, cell2),
                        !.selectedCell = Null,
                        !.hintCell = Null]
      ELSE [this EXCEPT !.selectedCell = cell2]

\* tryConnectCells that does not ask canConnect (mutant).
tryConnectCells_AlwaysConnects(this, cell1, cell2) ==
  LET algorithm == LinkGameAlgorithm(this.grid)
      c1 == ObjectOf(this.grid, cell1)
      c2 == ObjectOf(this.grid, cell2)
  IN  [this EXCEPT !.connectionPath = getConnectionPath(algorithm, c1, c2),
                   !.grid = SetMatched(SetMatched(this.grid, cell1), cell2),
                   !.selectedCell = Null,
                   !.hintCell = Null]

\* tryConnectCells on two references to cell objects.
tryConnectCells(this, cell1, cell2) ==
  LET algorithm == LinkGameAlgorithm(this.grid)
      c1 == ObjectOf(this.grid, cell1)
      c2 == ObjectOf(this.grid, cell2)
  IN  IF Truthy(canConnect(algorithm, c1, c2))
      THEN [this EXCEPT !.connectionPath = getConnectionPath(algorithm, c1, c2),
                        !.grid = SetMatched(SetMatched(this.grid, cell1), cell2),
                        !.selectedCell = Null,
                        !.hintCell = Null]
      ELSE [this EXCEPT !.selectedCell = cell2]

handleCellClick(this, x, y) ==
  LET cell == getCellAtPosition(this.grid, x, y)
  IN  IF cell = Null THEN this
      ELSE IF ~cell.visible \/ cell.matched THEN this
      ELSE IF this.selectedCell = Null
      THEN [this EXCEPT !.selectedCell = RefTo(cell), !.hintCell = Null]
      ELSE IF SameObject(this.selectedCell, cell)
      THEN [this EXCEPT !.selectedCell = Null]
      ELSE tryConnectCells(this, this.selectedCell, RefTo(cell))

checkLevelComplete(g) == \A cell \in GridCells(g) : ~(cell.visible /\ ~cell.matched)

\* A game after its constructor and init(): the size of the grid, the
\* patterns of every level, which never decrease from a level to the next,
\* and the board generated for level 1.
InitPlay ==
  /\ \E rows \in 1..MaxRows, cols \in 1..MaxCols :
       /\ rows * cols <= MaxPlayCells
       /\ rows * cols >= 2
       /\ levelConfigs \in [1..totalLevels -> 1..((rows * cols) \div 2)]
       /\ \A level \in 1..(totalLevels - 1) :
            levelConfigs[level] <= levelConfigs[level + 1]
       /\ levelBoards = [level \in 1..totalLevels |->
                           fillGridWithPatterns(initializeGrid(rows, cols),
                                                levelConfigs[level])]
       /\ grid \in levelBoards[1]
  /\ op = "init"
  /\ NoCallYet
  /\ NoGeneration
  /\ NoSnake
  /\ selectedCell = Null
  /\ hintCell = Null
  /\ gameStarted = FALSE
  /\ isGameOver = FALSE
  /\ isRunning = TRUE
  /\ currentLevel = 1
  /\ timeLeft = MaxTime
  /\ hintButton = FALSE

\* The variables no handler of the game writes.
playFrame ==
  <<pairs, hint, verdict, simulation, genVars, snakeVars, levelConfigs, levelBoards>>

\* The handler does not call canConnect.
NoCanConnect ==
  /\ arg1' = Null
  /\ arg2' = Null
  /\ result' = NotCalled

\* initializeGrid during a game: a new grid for the level, one of the boards
\* fillGridWithPatterns can generate for it.
NewGrid(level) == grid' \in levelBoards[level]

\* backToLobby: the back button was touched.
BackToLobby ==
  /\ op' = "backToLobby"
  /\ NoCanConnect
  /\ isRunning' = FALSE
  /\ gameStarted' = FALSE
  /\ UNCHANGED <<grid, path, selectedCell, hintCell, isGameOver,
                 currentLevel, timeLeft, hintButton>>

\* showHint: the hint button was touched.  It sets a timer, see HintTimeout.
ShowHint ==
  /\ op' = "showHint"
  /\ NoCanConnect
  /\ \E found \in findHint(LinkGameAlgorithm(grid)) :
       hintCell' = IF found # Null THEN RefTo(found.cell1) ELSE hintCell
  /\ UNCHANGED <<grid, path, selectedCell, gameStarted, isGameOver, isRunning,
                 currentLevel, timeLeft, hintButton>>

\* The first touch of the start screen.
StartGame ==
  /\ op' = "startGame"
  /\ NoCanConnect
  /\ gameStarted' = TRUE
  /\ UNCHANGED <<grid, path, selectedCell, hintCell, isGameOver,
                 isRunning, currentLevel, timeLeft, hintButton>>

\* init(), which the touch of the game over screen calls.
LinkGameInit ==
  /\ op' = "init"
  /\ NoCanConnect
  /\ isRunning' = TRUE
  /\ isGameOver' = FALSE
  /\ currentLevel' = 1
  /\ timeLeft' = MaxTime
  /\ gameStarted' = FALSE
  /\ selectedCell' = Null
  /\ hintCell' = Null
  /\ path' = NullPath
  /\ NewGrid(1)
  /\ UNCHANGED hintButton

\* The click reaches tryConnectCells: a visible unmatched cell other than
\* the selected one was hit.
ReachesTryConnectCells(this, x, y) ==
  LET cell == getCellAtPosition(this.grid, x, y)
  IN  /\ cell # Null
      /\ cell.visible /\ ~cell.matched
      /\ this.selectedCell # Null
      /\ ~SameObject(this.selectedCell, cell)

\* handleCellClick; the call of canConnect in tryConnectCells is recorded.
HandleCellClick(x, y) ==
  LET after == handleCellClick(ThisGame, x, y)
      cell1 == ObjectOf(grid, selectedCell)
      cell2 == getCellAtPosition(grid, x, y)
  IN  /\ IF ReachesTryConnectCells(ThisGame, x, y)
         THEN /\ op' = "tryConnectCells"
              /\ arg1' = cell1
              /\ arg2' = cell2
              /\ result' = canConnect(LinkGameAlgorithm(grid), cell1, cell2)
         ELSE /\ op' = "handleCellClick"
              /\ NoCanConnect
      /\ grid' = after.grid
      /\ selectedCell' = after.selectedCell
      /\ hintCell' = after.hintCell
      /\ path' = after.connectionPath
      /\ UNCHANGED <<gameStarted, isGameOver, isRunning, currentLevel,
                     timeLeft, hintButton>>

\* onTouchStart: the tests in the order of the code.
LinkOnTouchStart ==
  /\ isRunning
  /\ \E input \in TouchInputs(grid) :
       IF input.kind = "back" THEN BackToLobby
       ELSE IF hintButton /\ input.kind = "hint" THEN ShowHint
       ELSE IF ~gameStarted /\ ~isGameOver THEN StartGame
       ELSE IF isGameOver THEN LinkGameInit
       ELSE HandleCellClick(input.x, input.y)
  /\ UNCHANGED playFrame

\* gameOver()
LinkGameOver ==
  /\ isGameOver' = TRUE
  /\ gameStarted' = FALSE

\* completeLevel: the next level, or game over after the last one.
completeLevel ==
  IF currentLevel < totalLevels
  THEN /\ currentLevel' = currentLevel + 1
       /\ NewGrid(currentLevel + 1)
       /\ selectedCell' = Outlive(grid, selectedCell)
       /\ hintCell' = Outlive(grid, hintCell)
       /\ UNCHANGED <<gameStarted, isGameOver>>
  ELSE /\ LinkGameOver
       /\ UNCHANGED <<grid, currentLevel, selectedCell, hintCell>>

\* update: the early return, the clock, the animation of the connection
\* line, the test of the level.  Whether a second has gone by and whether
\* the animation is over depend on deltaTime.
LinkUpdate ==
  /\ isRunning
  /\ IF ~gameStarted \/ isGameOver
     THEN UNCHANGED <<grid, path, gameStarted, isGameOver, currentLevel,
                      timeLeft, selectedCell, hintCell>>
     ELSE \E second \in BOOLEAN, animationOver \in BOOLEAN :
            LET clock == IF second THEN timeLeft - 1 ELSE timeLeft
            IN  IF second /\ clock <= 0
                THEN /\ timeLeft' = clock
                     /\ LinkGameOver
                     /\ UNCHANGED <<grid, path, currentLevel,
                                    selectedCell, hintCell>>
                ELSE /\ path' = IF path # NullPath /\ animationOver
                                THEN NullPath ELSE path
                     /\ IF checkLevelComplete(grid)
                        THEN /\ completeLevel
                             /\ timeLeft' = IF currentLevel < totalLevels
                                            THEN MaxTime ELSE clock
                        ELSE /\ timeLeft' = clock
                             /\ UNCHANGED <<grid, gameStarted, isGameOver,
                                            currentLevel, selectedCell, hintCell>>
  /\ op' = "update"
  /\ NoCanConnect
  /\ UNCHANGED <<isRunning, hintButton>>
  /\ UNCHANGED playFrame

\* render draws the hint button with the board of a running game.
LinkRender ==
  /\ isRunning
  /\ hintButton' = (hintButton \/ (gameStarted /\ ~isGameOver))
  /\ op' = "render"
  /\ NoCanConnect
  /\ UNCHANGED <<grid, path, selectedCell, hintCell, gameStarted,
                 isGameOver, isRunning, currentLevel, timeLeft>>
  /\ UNCHANGED playFrame

\* The timer of showHint fires and finds hintCell to be the cell it was set
\* for: the hint is cleared.  Whenever hintCell is set, the timer of the
\* showHint that set it is still pending (had it fired, it would have
\* cleared the hint); a timer that finds another hint changes nothing.
HintTimeout ==
  /\ hintCell # Null
  /\ hintCell' = Null
  /\ op' = "hintTimeout"
  /\ NoCanConnect
  /\ UNCHANGED <<grid, path, selectedCell, gameStarted, isGameOver, isRunning,
                 currentLevel, timeLeft, hintButton>>
  /\ UNCHANGED playFrame

NextPlay ==
  \/ LinkOnTouchStart
  \/ LinkUpdate
  \/ LinkRender
  \/ HintTimeout

SpecPlay == InitPlay /\ [][NextPlay]_vars

(***************************************************************************)
(* The Snake game: the start screen, game over and restart                 *)
(***************************************************************************)
\* The variables of the Link game, which the Snake game leaves alone.
linkVars == <<grid, op, arg1, arg2, result, path, pairs, hint, verdict, simulation, genVars>>

\* The two classes with the start and restart flow: the game itself and the
\* class of the test script.
SnakeClasses == {"TestSnakeGame", "SnakeGame"}

\* The score the test script assigns before it ends the game.
TestScore == 100

\* The points of a food item.
FoodPoints == 10

\* A touch on the back button and a touch elsewhere on the screen.
TouchPoints == {[x |-> 60, y |-> 60], [x |-> 200, y |-> 300]}

backButton == [x |-> 20, y |-> 40, width |-> 80, height |-> 40]

isPointInBackButton(x, y) ==
  /\ x >= backButton.x
  /\ x <= backButton.x + backButton.width
  /\ y >= backButton.y
  /\ y <= backButton.y + backButton.height

\* The object the constructors leave.  TestSnakeGame has neither isRunning nor
\* isTouching: the two fields never change for it.
NewGame(class) ==
  [class |-> class, isRunning |-> FALSE, gameStarted |-> FALSE,
   isGameOver |-> FALSE, score |-> 0, isTouching |-> FALSE]

BaseGame_init(this) == [this EXCEPT !.isRunning = TRUE, !.isGameOver = FALSE]

SnakeGame_init(this) ==
  [BaseGame_init(this) EXCEPT !.score = 0, !.isTouching = FALSE,
                              !.gameStarted = FALSE, !.isGameOver = FALSE]

TestSnakeGame_init(this) ==
  [this EXCEPT !.gameStarted = FALSE, !.isGameOver = FALSE, !.score = 0]

init(this) ==
  IF this.class = "SnakeGame" THEN SnakeGame_init(this)
  ELSE TestSnakeGame_init(this)

\* destroy, which backToLobby calls when the back button is touched.
SnakeGame_destroy(this) ==
  [this EXCEPT !.isRunning = FALSE, !.gameStarted = FALSE]

\* The tests of onTouchStart in the order of the code: the back button, the
\* start screen, the game over screen, then the touch of a running game.
SnakeGame_onTouchStart(this, point) ==
  IF isPointInBackButton(point.x, point.y) THEN SnakeGame_destroy(this)
  ELSE IF ~this.gameStarted /\ ~this.isGameOver
         THEN [this EXCEPT !.gameStarted = TRUE]
  ELSE IF this.isGameOver
         THEN [SnakeGame_init(this) EXCEPT !.gameStarted = FALSE]
  ELSE IF this.gameStarted /\ ~this.isGameOver
         THEN [this EXCEPT !.isTouching = TRUE]
  ELSE this

\* The tests of the test class in the order of its code: not started first,
\* game over second.
TestSnakeGame_onTouchStart(this) ==
  IF ~this.gameStarted THEN [this EXCEPT !.gameStarted = TRUE]
  ELSE IF this.isGameOver
         THEN [TestSnakeGame_init(this) EXCEPT !.gameStarted = TRUE,
                                               !.isGameOver = FALSE]
  ELSE this

onTouchStart(this, point) ==
  IF this.class = "SnakeGame" THEN SnakeGame_onTouchStart(this, point)
  ELSE TestSnakeGame_onTouchStart(this)

\* gameOver is the same in the two classes.
gameOver(this) == [this EXCEPT !.isGameOver = TRUE, !.gameStarted = FALSE]

\* update gets past its early return and executes the game logic.
ExecutesLogic(this) == ~(~this.gameStarted \/ this.isGameOver)

\* What a move of the snake can do to the flow: the snake hits a wall or
\* itself, it eats the food, or it moves on.  The positions of the snake and
\* of the food are left out: each outcome is possible in a running game.
MoveOutcomes == {"collide", "eat", "move"}

moveSnake(this, outcome) ==
  IF outcome = "collide" THEN gameOver(this)
  ELSE IF outcome = "eat" THEN [this EXCEPT !.score = @ + FoodPoints]
  ELSE this

\* The screen SnakeGame.render draws: the start screen is tested first.
SnakeGame_render(this) ==
  IF ~this.gameStarted THEN "start"
  ELSE IF this.isGameOver THEN "gameOver"
  ELSE "game"

\* The screen TestSnakeGame.render draws: game over is tested first.
TestSnakeGame_render(this) ==
  IF this.isGameOver THEN "gameOver"
  ELSE IF ~this.gameStarted THEN "start"
  ELSE "game"

render(this) ==
  IF this.class = "SnakeGame" THEN SnakeGame_render(this)
  ELSE TestSnakeGame_render(this)

\* A game of either class, constructed and not yet initialised.
InitSnake ==
  /\ grid = initializeGrid(1, 1)
  /\ op = "idle"
  /\ NoCallYet
  /\ NoGeneration
  /\ NoPlay
  /\ \E class \in SnakeClasses : game = NewGame(class)
  /\ touch = Null
  /\ screen = "none"
  /\ lastUpdate = "none"
  /\ called = "constructor"

\* The game receives frames and touches once init was called and until it
\* was destroyed.
OnScreen ==
  /\ called # "constructor"
  /\ game.class = "SnakeGame" => game.isRunning

SnakeInit ==
  /\ game' = init(game)
  /\ called' = "init"
  /\ UNCHANGED <<touch, screen, lastUpdate, linkVars, playVars>>

OnTouchStart ==
  /\ OnScreen
  /\ \E point \in TouchPoints :
       /\ game' = onTouchStart(game, point)
       /\ touch' = IF game.class = "SnakeGame" THEN point ELSE Null
  /\ called' = "onTouchStart"
  /\ UNCHANGED <<screen, lastUpdate, linkVars, playVars>>

\* The test script assigns the score and calls gameOver itself.
SetScore ==
  /\ OnScreen
  /\ game.class = "TestSnakeGame"
  /\ game' = [game EXCEPT !.score = TestScore]
  /\ called' = "score"
  /\ UNCHANGED <<touch, screen, lastUpdate, linkVars, playVars>>

GameOver ==
  /\ OnScreen
  /\ game.class = "TestSnakeGame"
  /\ game' = gameOver(game)
  /\ called' = "gameOver"
  /\ UNCHANGED <<touch, screen, lastUpdate, linkVars, playVars>>

\* update: the early return, then in SnakeGame a move of the snake, which
\* ends the game on a collision.  TestSnakeGame only logs.
Update ==
  /\ OnScreen
  /\ IF ExecutesLogic(game)
       THEN /\ lastUpdate' = "ran"
            /\ IF game.class = "SnakeGame"
                 THEN \E outcome \in MoveOutcomes :
                        /\ outcome = "eat"
                             => game.score + FoodPoints <= FoodPoints * MaxScore
                        /\ game' = moveSnake(game, outcome)
                 ELSE game' = game
       ELSE /\ lastUpdate' = "skipped"
            /\ game' = game
  /\ called' = "update"
  /\ UNCHANGED <<touch, screen, linkVars, playVars>>

Render ==
  /\ OnScreen
  /\ screen' = render(game)
  /\ called' = "render"
  /\ UNCHANGED <<game, touch, lastUpdate, linkVars, playVars>>

NextSnake ==
  \/ SnakeInit
  \/ OnTouchStart
  \/ SetScore
  \/ GameOver
  \/ Update
  \/ Render

SpecSnake == InitSnake /\ [][NextSnake]_vars

(***************************************************************************)
(* Vocabulary of the properties, independent of the algorithm              *)
(***************************************************************************)
Algorithm == LinkGameAlgorithm(grid)

GridPositions == {<<row, col>> : row \in DOMAIN grid, col \in DOMAIN grid[0]}

PositionOf(cell) == <<cell.row, cell.col>>

\* The argument is missing or lies outside the grid.
MissingOrOutside(cell) == cell = Null \/ PositionOf(cell) \notin GridPositions

\* A cell that is on the board: visible and not matched.
OnBoard(cell) == cell.visible /\ ~cell.matched

\* A position whose cell is empty: not visible, or matched.
EmptyAt(pos) == ~grid[pos[1]][pos[2]].visible \/ grid[pos[1]][pos[2]].matched

\* The positions strictly between two positions of one row or one column.
StrictlyBetween(p, q) ==
  {x \in GridPositions :
     \/ x[1] = p[1] /\ x[1] = q[1] /\ Min(p[2], q[2]) < x[2] /\ x[2] < Max(p[2], q[2])
     \/ x[2] = p[2] /\ x[2] = q[2] /\ Min(p[1], q[1]) < x[1] /\ x[1] < Max(p[1], q[1])}

\* A straight segment between two different positions through empty cells.
Segment(p, q) ==
  /\ p # q
  /\ p[1] = q[1] \/ p[2] = q[2]
  /\ \A x \in StrictlyBetween(p, q) : EmptyAt(x)

\* A rectilinear route inside the grid with at most two turns, each at an
\* empty cell, and through empty cells only.
RouteExists(p, q) ==
  \/ Segment(p, q)
  \/ \E t \in GridPositions : EmptyAt(t) /\ Segment(p, t) /\ Segment(t, q)
  \/ \E t \in GridPositions, u \in GridPositions :
       EmptyAt(t) /\ EmptyAt(u) /\ Segment(p, t) /\ Segment(t, u) /\ Segment(u, q)

\* Two distinct cells on the board with the same pattern.
Pair(a, b) ==
  /\ a # b
  /\ OnBoard(a) /\ OnBoard(b)
  /\ a.pattern # NoPattern /\ a.pattern = b.pattern

\* A corner candidate of the one-corner case that qualifies.
CornerQualifies(a, t, b) == EmptyAt(t) /\ Segment(PositionOf(a), t) /\ Segment(t, PositionOf(b))

PathPoint(pos) == [x |-> pos[2], y |-> pos[1]]

(***************************************************************************)
(* The properties                                                          *)
(***************************************************************************)
\* C1: for two distinct, visible, unmatched cells of the grid with equal
\* non-null patterns, canConnect is true exactly if a rectilinear route of at
\* most two turns through empty cells inside the grid joins them.
C1_CanConnectIffRoute ==
  (op = "canConnect" /\ Pair(arg1, arg2))
    => (Truthy(result) <=> RouteExists(PositionOf(arg1), PositionOf(arg2)))

\* A pair in different rows and columns that only a two-corner route joins.
C1_Witness ==
  /\ op = "canConnect" /\ Pair(arg1, arg2)
  /\ arg1.row # arg2.row /\ arg1.col # arg2.col
  /\ result.type = "two-corners"

\* C2 as stated: for any pair of cells of the grid, canConnect is true
\* exactly if getConnectionPath returns a path, and a returned path starts at
\* the first cell and ends at the second.
C2_AnyPairIffPath ==
  op = "getConnectionPath"
    => /\ Truthy(canConnect(Algorithm, arg1, arg2)) <=> path # NullPath
       /\ path # NullPath
            => /\ path[1] = PathPoint(PositionOf(arg1))
               /\ path[Len(path)] = PathPoint(PositionOf(arg2))

\* C2 amended: for two distinct cells of the grid with equal non-null
\* patterns, canConnect is true exactly if getConnectionPath returns a path;
\* for any pair of cells a returned path starts at the first cell and ends
\* at the second.
C2_MatchingPairIffPath ==
  op = "getConnectionPath"
    => /\ (arg1 # arg2 /\ arg1.pattern # NoPattern /\ arg1.pattern = arg2.pattern)
            => (Truthy(canConnect(Algorithm, arg1, arg2)) <=> path # NullPath)
       /\ path # NullPath
            => /\ path[1] = PathPoint(PositionOf(arg1))
               /\ path[Len(path)] = PathPoint(PositionOf(arg2))

\* A matching pair that canConnect accepts by a two-corner route.
C2_Witness ==
  /\ op = "getConnectionPath"
  /\ arg1 # arg2 /\ arg1.pattern # NoPattern /\ arg1.pattern = arg2.pattern
  /\ Truthy(canConnect(Algorithm, arg1, arg2))
  /\ Len(path) = 4

\* C3: whenever canConnect is true, getConnectionPath on the same grid
\* returns a path of 2, 3 or 4 grid coordinates.
C3_PathOfTwoToFourPoints ==
  (op = "getConnectionPath" /\ Truthy(canConnect(Algorithm, arg1, arg2)))
    => /\ path # NullPath
       /\ Len(path) \in {2, 3, 4}
       /\ \A i \in 1..Len(path) : <<path[i].y, path[i].x>> \in GridPositions

\* A connectable pair whose path has one turn point.
C3_Witness ==
  /\ op = "getConnectionPath"
  /\ Truthy(canConnect(Algorithm, arg1, arg2))
  /\ Len(path) = 3

\* C4: canConnect decides the same for (a, b) and (b, a) on visible,
\* unmatched cells with matching patterns.
C4_Symmetric ==
  (op = "canConnect" /\ OnBoard(arg1) /\ OnBoard(arg2) /\ arg1.pattern = arg2.pattern)
    => (Truthy(result) <=> Truthy(canConnect(Algorithm, arg2, arg1)))

\* A pair joined through one corner, where the two orders return different
\* corners.
C4_Witness ==
  /\ op = "canConnect" /\ Pair(arg1, arg2)
  /\ result.type = "one-corner"
  /\ canConnect(Algorithm, arg2, arg1) # result

\* C5: canConnect(a, a) is false for every cell a, and so is
\* canConnectInGrid(a, a).
C5_SelfPairRejected ==
  (op = "canConnect" /\ arg1 = arg2)
    => /\ ~Truthy(result)
       /\ ~canConnectInGrid(Algorithm, arg1, arg2, grid)

\* The cell is a tile on the board.
C5_Witness ==
  /\ op = "canConnect" /\ arg1 = arg2
  /\ OnBoard(arg1) /\ arg1.pattern # NoPattern
  /\ ~Truthy(result)

\* C6: canConnect is false for two cells whose patterns differ or one of
\* which has no pattern, even if a clear route joins them.
C6_MismatchRejected ==
  (op = "canConnect"
     /\ (arg1.pattern # arg2.pattern \/ arg1.pattern = NoPattern \/ arg2.pattern = NoPattern))
    => ~Truthy(result)

\* Two tiles of different patterns with a clear route between them.
C6_Witness ==
  /\ op = "canConnect"
  /\ OnBoard(arg1) /\ OnBoard(arg2)
  /\ arg1.pattern # NoPattern /\ arg2.pattern # NoPattern
  /\ arg1.pattern # arg2.pattern
  /\ RouteExists(PositionOf(arg1), PositionOf(arg2))
  /\ ~Truthy(result)

\* C7: canConnect returns false when an argument is missing or outside the
\* grid, and leaves the grid unchanged.  (That it does not throw is that TLC
\* evaluates every such call: a read of a field of Null is an error.)
C7_InvalidArgumentRejected ==
  [][(op' = "canConnect" /\ (MissingOrOutside(arg1') \/ MissingOrOutside(arg2')))
       => (result' = JsFalse /\ grid' = grid)]_vars

\* A cell just outside the grid, next to a tile of its pattern.
C7_Witness ==
  /\ op = "canConnect"
  /\ arg1 # Null /\ MissingOrOutside(arg1)
  /\ ~MissingOrOutside(arg2) /\ OnBoard(arg2)
  /\ arg1.pattern = arg2.pattern
  /\ arg1.col = arg2.col
  /\ result = JsFalse

\* C8 as stated: canConnect returns false whenever an endpoint is matched,
\* as canConnectInGrid does.
C8_MatchedEndpointRejected ==
  (op = "canConnect" /\ (arg1.matched \/ arg2.matched))
    => /\ ~Truthy(result)
       /\ ~canConnectInGrid(Algorithm, arg1, arg2, grid)

\* C9: the straight-line test holds exactly for two cells of one row or
\* column with only empty cells strictly between them; on a one-row grid two
\* tiles of one pattern connect exactly if every cell strictly between them
\* is empty.
C9_StraightLine ==
  op = "canConnect"
    => /\ checkStraightLine(Algorithm, arg1, arg2)
            <=> /\ arg1.row = arg2.row \/ arg1.col = arg2.col
                /\ \A x \in StrictlyBetween(PositionOf(arg1), PositionOf(arg2)) : EmptyAt(x)
       /\ (Cardinality(DOMAIN grid) = 1 /\ Pair(arg1, arg2))
            => (Truthy(result)
                  <=> \A x \in StrictlyBetween(PositionOf(arg1), PositionOf(arg2)) : EmptyAt(x))

\* A one-row grid with a tile strictly between the two tiles.
C9_Witness ==
  /\ op = "canConnect" /\ Pair(arg1, arg2)
  /\ Cardinality(DOMAIN grid) = 1
  /\ \E x \in StrictlyBetween(PositionOf(arg1), PositionOf(arg2)) : ~EmptyAt(x)
  /\ ~Truthy(result)

\* C10: for two tiles of one pattern in different rows and columns of which
\* a corner candidate qualifies, canConnect is true and getConnectionPath
\* returns three points whose middle one is a qualifying corner, and is
\* (a.row, b.col) whenever that one qualifies.
C10_OneCorner ==
  (/\ op = "getConnectionPath"
   /\ arg1.visible /\ arg2.visible
   /\ arg1.pattern # NoPattern /\ arg1.pattern = arg2.pattern
   /\ arg1.row # arg2.row /\ arg1.col # arg2.col
   /\ \/ CornerQualifies(arg1, <<arg1.row, arg2.col>>, arg2)
      \/ CornerQualifies(arg1, <<arg2.row, arg1.col>>, arg2))
    => /\ Truthy(canConnect(Algorithm, arg1, arg2))
       /\ Len(path) = 3
       /\ path[1] = PathPoint(PositionOf(arg1))
       /\ path[3] = PathPoint(PositionOf(arg2))
       /\ \/ /\ path[2] = PathPoint(<<arg1.row, arg2.col>>)
             /\ CornerQualifies(arg1, <<arg1.row, arg2.col>>, arg2)
          \/ /\ path[2] = PathPoint(<<arg2.row, arg1.col>>)
             /\ CornerQualifies(arg1, <<arg2.row, arg1.col>>, arg2)
       /\ CornerQualifies(arg1, <<arg1.row, arg2.col>>, arg2)
            => path[2] = PathPoint(<<arg1.row, arg2.col>>)

\* Both corners qualify and the first is returned.
C10_Witness ==
  /\ op = "getConnectionPath" /\ Pair(arg1, arg2)
  /\ arg1.row # arg2.row /\ arg1.col # arg2.col
  /\ CornerQualifies(arg1, <<arg1.row, arg2.col>>, arg2)
  /\ CornerQualifies(arg1, <<arg2.row, arg1.col>>, arg2)
  /\ path = <<PathPoint(PositionOf(arg1)), PathPoint(<<arg1.row, arg2.col>>),
              PathPoint(PositionOf(arg2))>>

\* A route that turns at two empty cells of row r: down or up the column of
\* a, along row r, and up or down the column of b.
RowRoute(a, r, b) ==
  /\ <<r, a.col>> \in GridPositions /\ EmptyAt(<<r, a.col>>) /\ EmptyAt(<<r, b.col>>)
  /\ Segment(PositionOf(a), <<r, a.col>>)
  /\ Segment(<<r, a.col>>, <<r, b.col>>)
  /\ Segment(<<r, b.col>>, PositionOf(b))

\* A route that turns at two empty cells of column c.
ColRoute(a, c, b) ==
  /\ <<a.row, c>> \in GridPositions /\ EmptyAt(<<a.row, c>>) /\ EmptyAt(<<b.row, c>>)
  /\ Segment(PositionOf(a), <<a.row, c>>)
  /\ Segment(<<a.row, c>>, <<b.row, c>>)
  /\ Segment(<<b.row, c>>, PositionOf(b))

RowRoutes(a, b) == {r \in DOMAIN grid : RowRoute(a, r, b)}

ColRoutes(a, b) == {c \in DOMAIN grid[0] : ColRoute(a, c, b)}

\* Two visible cells of one pattern that neither a straight line nor a
\* one-corner route joins.
NeedsTwoCorners(a, b) ==
  /\ a.visible /\ b.visible
  /\ a.pattern # NoPattern /\ a.pattern = b.pattern
  /\ ~Segment(PositionOf(a), PositionOf(b))
  /\ ~CornerQualifies(a, <<a.row, b.col>>, b)
  /\ ~CornerQualifies(a, <<b.row, a.col>>, b)

\* C11: for two visible cells of one pattern without a straight-line and
\* without a one-corner connection, if a route through two empty turn
\* points of a common row or of a common column is clear, canConnect is true
\* and getConnectionPath returns the four points a, corner1, corner2, b of
\* such a route.
C11_TwoCorners ==
  (/\ op = "getConnectionPath"
   /\ NeedsTwoCorners(arg1, arg2)
   /\ RowRoutes(arg1, arg2) # {} \/ ColRoutes(arg1, arg2) # {})
    => /\ Truthy(canConnect(Algorithm, arg1, arg2))
       /\ Len(path) = 4
       /\ path[1] = PathPoint(PositionOf(arg1))
       /\ path[4] = PathPoint(PositionOf(arg2))
       /\ \/ \E r \in RowRoutes(arg1, arg2) :
               /\ path[2] = PathPoint(<<r, arg1.col>>)
               /\ path[3] = PathPoint(<<r, arg2.col>>)
          \/ \E c \in ColRoutes(arg1, arg2) :
               /\ path[2] = PathPoint(<<arg1.row, c>>)
               /\ path[3] = PathPoint(<<arg2.row, c>>)

\* Two tiles in different rows and columns joined only around a column.
C11_Witness ==
  /\ op = "getConnectionPath"
  /\ NeedsTwoCorners(arg1, arg2)
  /\ arg1.row # arg2.row /\ arg1.col # arg2.col
  /\ RowRoutes(arg1, arg2) = {} /\ ColRoutes(arg1, arg2) # {}
  /\ Len(path) = 4

\* C12: when canConnect answers with a two-corner route, its turn points
\* are those of the lowest row that yields a row route; a column route is
\* returned only if no row route exists, and then that of the lowest column.
C12_TwoCornerTieBreak ==
  (op = "canConnect" /\ result.type = "two-corners")
    => LET rows == RowRoutes(arg1, arg2)
           cols == ColRoutes(arg1, arg2)
       IN  /\ rows # {} \/ cols # {}
           /\ rows # {}
                => \E r \in rows :
                     /\ \A s \in rows : r <= s
                     /\ result.corners = <<[row |-> r, col |-> arg1.col],
                                           [row |-> r, col |-> arg2.col]>>
           /\ rows = {}
                => \E c \in cols :
                     /\ \A d \in cols : c <= d
                     /\ result.corners = <<[row |-> arg1.row, col |-> c],
                                           [row |-> arg2.row, col |-> c]>>

\* A row route and a column route both exist; the row route is returned.
C12_Witness ==
  /\ op = "canConnect" /\ result.type = "two-corners"
  /\ RowRoutes(arg1, arg2) # {} /\ ColRoutes(arg1, arg2) # {}
  /\ result.corners[1].row = result.corners[2].row

\* The entries of the list that hold the unordered pair {a, b}.
Occurrences(list, a, b) ==
  {k \in 1..Len(list) : {list[k].cell1, list[k].cell2} = {a, b}}

\* C13: findAllConnectablePairs returns exactly the unordered pairs of
\* distinct visible, unmatched cells of one non-null pattern that canConnect
\* accepts: each of them once, and nothing else.
C13_ExactlyTheConnectablePairs ==
  op = "findAllConnectablePairs"
    => /\ \A k \in 1..Len(pairs) :
            /\ pairs[k].cell1 \in GridCells(grid) /\ pairs[k].cell2 \in GridCells(grid)
            /\ Pair(pairs[k].cell1, pairs[k].cell2)
            /\ Truthy(canConnect(Algorithm, pairs[k].cell1, pairs[k].cell2))
       /\ \A a \in GridCells(grid), b \in GridCells(grid) :
            (Pair(a, b) /\ Truthy(canConnect(Algorithm, a, b)))
              => Cardinality(Occurrences(pairs, a, b)) = 1

\* Several pairs are returned and an unconnectable pair is left out.
C13_Witness ==
  /\ op = "findAllConnectablePairs"
  /\ Len(pairs) >= 2
  /\ \E a \in GridCells(grid), b \in GridCells(grid) :
       Pair(a, b) /\ ~Truthy(canConnect(Algorithm, a, b))

\* C14: on a grid without visible unmatched cells every call of
\* findAllConnectablePairs returns the empty list and leaves the grid as
\* it is.
C14_NothingToPair ==
  [][(op' = "findAllConnectablePairs" /\ \A cell \in GridCells(grid) : ~OnBoard(cell))
       => (pairs' = <<>> /\ grid' = grid)]_vars

\* The call was made on a grid whose only tiles are a removed pair that
\* canConnect would accept.
C14_Witness ==
  /\ op = "findAllConnectablePairs"
  /\ \A cell \in GridCells(grid) : ~OnBoard(cell)
  /\ \E a \in GridCells(grid), b \in GridCells(grid) : Truthy(canConnect(Algorithm, a, b))
  /\ pairs = <<>>

\* C15: findHint returns null exactly if findAllConnectablePairs is empty,
\* and otherwise an element of that list, which is a pair of visible,
\* unmatched cells of one pattern that canConnect accepts; the grid is left
\* as it is.
C15_HintIsAConnectablePair ==
  [][op' = "findHint"
       => LET list == findAllConnectablePairs(LinkGameAlgorithm(grid))
          IN  /\ grid' = grid
              /\ hint' = Null <=> list = <<>>
              /\ hint' # Null
                   => /\ \E k \in 1..Len(list) : hint' = list[k]
                      /\ hint'.cell1 # hint'.cell2
                      /\ OnBoard(hint'.cell1) /\ OnBoard(hint'.cell2)
                      /\ hint'.cell1.pattern # NoPattern
                      /\ hint'.cell1.pattern = hint'.cell2.pattern
                      /\ Truthy(canConnect(LinkGameAlgorithm(grid), hint'.cell1, hint'.cell2))]_vars

\* The hint is the last of several connectable pairs.
C15_Witness ==
  /\ op = "findHint"
  /\ hint # Null
  /\ LET list == findAllConnectablePairs(Algorithm)
     IN  Len(list) >= 2 /\ hint = list[Len(list)]

\* The grid after the move that joins a and b: both are matched.
AfterMove(g, a, b) ==
  [row \in DOMAIN g |->
    [col \in DOMAIN g[row] |->
      IF <<row, col>> \in {PositionOf(a), PositionOf(b)}
      THEN [g[row][col] EXCEPT !.matched = TRUE]
      ELSE g[row][col]]]

RECURSIVE Clearable(_)
\* Some sequence of moves, each joining two visible unmatched cells of one
\* pattern that canConnect accepts at that moment, leaves no visible
\* unmatched cell.
Clearable(g) ==
  \/ \A cell \in GridCells(g) : ~OnBoard(cell)
  \/ \E a \in GridCells(g), b \in GridCells(g) :
       /\ Pair(a, b)
       /\ Truthy(canConnect(LinkGameAlgorithm(g), a, b))
       /\ Clearable(AfterMove(g, a, b))

\* C18: the solvability check leaves every cell of the live grid with the
\* pattern, visible and matched values it had, whatever the verdict.
C18_LiveGridUntouched ==
  [][op' = "isBoardSolvable" => grid' = grid]_vars

\* The check removed every tile of its copy; the live tiles are still there.
C18_Witness ==
  /\ op = "isBoardSolvable"
  /\ verdict
  /\ Cardinality({cell \in GridCells(grid) : OnBoard(cell)}) >= 4

\* C19: if the solvability check answers true, some sequence of moves on
\* the live grid, each joining two visible unmatched cells of one pattern
\* that canConnect accepts at that moment, removes every tile.
C19_SolvableVerdictSound ==
  (op = "isBoardSolvable" /\ verdict) => Clearable(grid)

\* A board of two patterns that takes two moves, the second possible only
\* after the first.
C19_Witness ==
  /\ op = "isBoardSolvable"
  /\ verdict
  /\ Cardinality({cell \in GridCells(grid) : OnBoard(cell)}) = 4
  /\ \E a \in GridCells(grid), b \in GridCells(grid) :
       Pair(a, b) /\ ~Truthy(canConnect(Algorithm, a, b))

\* The visible unmatched cells of the grid that carry the pattern.
CellsOfPattern(patternId) ==
  {cell \in GridCells(grid) : OnBoard(cell) /\ cell.pattern = patternId}

\* C16: when fillGridWithPatterns has finished for a level whose pairs fit
\* the grid, on whichever exit, every pattern is on 0 or 2 visible unmatched
\* cells.
C16_ParityAfterGeneration ==
  (op = "filled" /\ 2 * patternCount <= Cardinality(GridCells(grid)))
    => \A patternId \in (1..patternCount) \cup {cell.pattern : cell \in GridCells(grid)} :
         patternId # NoPattern => Cardinality(CellsOfPattern(patternId)) \in {0, 2}

\* The board delivered after the ceiling and the deep reshuffle, not
\* validated as solvable.
C16_Witness ==
  /\ op = "filled"
  /\ deepReshuffles = 1
  /\ ~isSolvable
  /\ \E cell \in GridCells(grid) : OnBoard(cell)

\* C17: board generation makes at most 100 fill-and-validate attempts and
\* at most one deep reshuffle and does not loop unboundedly: every pass of
\* the loop either ends it with a solvable board or uses up one of the 100
\* retries, and once the loop is left a board is delivered.
C17_GenerationTerminates ==
  [][op = "filling"
       => /\ attempts' <= 100
          /\ deepReshuffles' <= 1
          /\ retryCount' <= 100
          /\ op' = "filled" \/ isSolvable' \/ retryCount' = retryCount + 1
          /\ op' = "filled"
               => /\ isSolvable \/ retryCount = 100
                  /\ Cardinality({cell \in GridCells(grid') : OnBoard(cell)})
                       = 2 * patternCount]_vars

\* The board is delivered after 100 attempts and the deep reshuffle.
C17_Witness ==
  /\ op = "filled"
  /\ attempts = 100
  /\ deepReshuffles = 1

\* The touch of this step landed on the screen, not on the back button.
ScreenTouched ==
  /\ called' = "onTouchStart"
  /\ touch' = Null \/ ~isPointInBackButton(touch'.x, touch'.y)

\* C20: after init the game waits on the start screen and the first touch
\* starts it; once gameOver has occurred, a single touch makes the game run
\* again (gameStarted true and isGameOver false), render shows the game
\* screen and update executes the game logic.
C20_StartAndRestartFlow ==
  [][/\ called' = "init"
          => render(game') = "start" /\ ~ExecutesLogic(game')
     /\ called = "init" /\ ScreenTouched
          => game'.gameStarted /\ ~game'.isGameOver
     /\ game.isGameOver /\ ScreenTouched
          => /\ game'.gameStarted /\ ~game'.isGameOver
             /\ render(game') = "game"
             /\ ExecutesLogic(game')]_vars

ScanIndex(cell) == cell.row * Cardinality(DOMAIN grid[0]) + cell.col

\* C22: after every fill attempt, and when generation has finished, the
\* cells at row-major index < min(2N, rows * cols) are exactly the cells that
\* are visible, unmatched and carry a pattern; every other cell is not
\* visible, matched and without pattern.  The filled positions are thus the
\* same on every retry.
C22_FillLayout ==
  attempts >= 1
    => \A cell \in GridCells(grid) :
         IF ScanIndex(cell) < Min(2 * patternCount, Cardinality(GridCells(grid)))
         THEN cell.visible /\ ~cell.matched /\ cell.pattern # NoPattern
         ELSE ~cell.visible /\ cell.matched /\ cell.pattern = NoPattern

\* A finished board with filled cells and with cells left over.
C22_Witness ==
  /\ op = "filled"
  /\ attempts >= 1
  /\ \E cell \in GridCells(grid) : OnBoard(cell)
  /\ \E cell \in GridCells(grid) : ~cell.visible

\* The number of visible unmatched cells of grid g that carry the pattern.
PatternCountIn(g, patternId) ==
  Cardinality({cell \in GridCells(g) : OnBoard(cell) /\ cell.pattern = patternId})

\* C23: a reshuffle (deepReshuffleGrid, reshuffleGrid) only permutes the
\* patterns among the visible unmatched cells: every pattern is on as many of
\* those cells after as before, no cell changes its visible or matched flag,
\* and a cell that is not visible or is matched is not modified at all.
C23_ReshufflePermutesPatterns ==
  [][op' \in {"reshuffleGrid", "deepReshuffleGrid"}
       => /\ DOMAIN grid' = DOMAIN grid
          /\ \A pos \in GridPositions :
               LET before == grid[pos[1]][pos[2]]
                   after == grid'[pos[1]][pos[2]]
               IN  /\ after.visible = before.visible
                   /\ after.matched = before.matched
                   /\ after.row = before.row /\ after.col = before.col
                   /\ ~OnBoard(before) => after = before
          /\ \A patternId \in 0..NumPatterns :
               PatternCountIn(grid', patternId) = PatternCountIn(grid, patternId)]_vars

\* A reshuffle moved a pattern on a board that also has a removed tile.
C23_Witness ==
  /\ op \in {"reshuffleGrid", "deepReshuffleGrid"}
  /\ \E cell \in GridCells(grid) : cell.visible /\ cell.matched
  /\ \E a, b \in GridCells(grid) :
       /\ OnBoard(a) /\ OnBoard(b)
       /\ Before(PositionOf(a), PositionOf(b))
       /\ a.pattern > b.pattern

\* The positions whose cell is matched in grid g.
MatchedPositions(g) ==
  {pos \in (DOMAIN g) \X (DOMAIN g[0]) : g[pos[1]][pos[2]].matched}

\* The step stays within the level: the grid is not replaced.
WithinLevel == op' # "init" /\ currentLevel' = currentLevel

\* C24: a tap on a second cell c2 (a tile on the board) while c1 is selected
\* changes matched flags only if canConnect(c1, c2) is true; then exactly c1
\* and c2 become matched and the selection is cleared.  If canConnect is
\* false no matched flag changes and c2 becomes the selected cell.  Within a
\* level no other step changes a matched flag, and a matched cell never
\* becomes unmatched.
C24_MatchResolution ==
  [][/\ op' = "tryConnectCells"
          => LET c1 == arg1'
                 c2 == arg2'
             IN  /\ selectedCell = RefTo(c1)
                 /\ c1 = grid[c1.row][c1.col] /\ c2 = grid[c2.row][c2.col]
                 /\ IF Truthy(canConnect(Algorithm, c1, c2))
                    THEN /\ MatchedPositions(grid')
                              = MatchedPositions(grid) \cup {PositionOf(c1), PositionOf(c2)}
                         /\ selectedCell' = Null
                    ELSE /\ MatchedPositions(grid') = MatchedPositions(grid)
                         /\ selectedCell' = RefTo(c2)
     /\ WithinLevel
          => /\ MatchedPositions(grid) \subseteq MatchedPositions(grid')
             /\ MatchedPositions(grid') # MatchedPositions(grid)
                  => op' = "tryConnectCells" /\ Truthy(result')]_vars

\* A tap connected the selected cell with the cell that was hit.
C24_Witness ==
  /\ op = "tryConnectCells"
  /\ Truthy(result)
  /\ Len(path) >= 2
  /\ arg1.matched = FALSE
  /\ grid[arg1.row][arg1.col].matched
  /\ grid[arg2.row][arg2.col].matched
  /\ selectedCell = Null

\* C25: in every state of a game, whatever the taps, hint requests, update
\* ticks, level completions and restarts before it, selectedCell is null or
\* a visible unmatched cell of the current grid; hence the cells
\* tryConnectCells hands to canConnect are visible and unmatched.
C25_SelectionIsATileOfTheGrid ==
  /\ selectedCell # Null
       => /\ ~selectedCell.stale
          /\ <<selectedCell.row, selectedCell.col>> \in GridPositions
          /\ OnBoard(grid[selectedCell.row][selectedCell.col])
  /\ op = "tryConnectCells"
       => /\ arg1 # Null /\ OnBoard(arg1)
          /\ arg2 # Null /\ OnBoard(arg2)

\* A tile is selected on the board of the second level, after a pair of
\* that level was removed.
C25_Witness ==
  /\ selectedCell # Null
  /\ currentLevel = 2
  /\ gameStarted
  /\ \E cell \in GridCells(grid) : cell.visible /\ cell.matched

\* C30: starting from a generated board, after any sequence of taps, hint
\* requests and update ticks, every pattern is on 0 or 2 visible unmatched
\* cells: tiles leave the board as complete pairs of one pattern.
C30_PairingParityInPlay ==
  /\ \A patternId \in 1..MaxPlayCells :
       Cardinality(CellsOfPattern(patternId)) \in {0, 2}
  /\ op = "tryConnectCells" /\ Truthy(result) => arg1.pattern = arg2.pattern

\* One pair was removed and the other pair of the level is still on the
\* board.
C30_Witness ==
  /\ op = "tryConnectCells"
  /\ Truthy(result)
  /\ \E cell \in GridCells(grid) : OnBoard(cell)
  /\ \E cell \in GridCells(grid) : cell.visible /\ cell.matched

\* C26: the simulation variant and the live variant agree on the grid the
\* algorithm is bound to: for any two visible unmatched cells a, b,
\* canConnectInGrid(a, b, grid) is true exactly when canConnect(a, b) is
\* (canConnect answers a connection with a corner by a truthy result object),
\* and findAllConnectablePairsInGrid(grid) returns the pairs of
\* findAllConnectablePairs() in the same order.
C26_SimulationAgreesWithLive ==
  /\ \A a \in GridCells(grid), b \in GridCells(grid) :
       OnBoard(a) /\ OnBoard(b)
         => canConnectInGrid(Algorithm, a, b, grid) = Truthy(canConnect(Algorithm, a, b))
  /\ op = "findAllConnectablePairs"
       => pairs = findAllConnectablePairsInGrid(Algorithm, grid)

\* Both enumerations list a pair that is joined around a corner, on a board
\* with a removed tile.
C26_Witness ==
  /\ op = "findAllConnectablePairs"
  /\ \E k \in DOMAIN pairs :
       canConnect(Algorithm, pairs[k].cell1, pairs[k].cell2) # JsTrue
  /\ \E cell \in GridCells(grid) : cell.visible /\ cell.matched

\* Every pattern is on at most two visible unmatched cells of the grid.
AtMostTwoOfEach ==
  \A patternId \in 1..NumPatterns : Cardinality(CellsOfPattern(patternId)) <= 2

RECURSIVE EveryOrderClears(_)
\* Whichever connectable pair is removed at each step, no visible unmatched
\* cell is left when no pair can be removed any more.
EveryOrderClears(g) ==
  /\ (\A a \in GridCells(g), b \in GridCells(g) :
        Pair(a, b) => ~Truthy(canConnect(LinkGameAlgorithm(g), a, b)))
       => \A cell \in GridCells(g) : ~OnBoard(cell)
  /\ \A a \in GridCells(g), b \in GridCells(g) :
       Pair(a, b) /\ Truthy(canConnect(LinkGameAlgorithm(g), a, b))
         => EveryOrderClears(AfterMove(g, a, b))

\* C27: on a grid where every pattern is on at most two visible unmatched
\* cells the greedy elimination is exact: the solvability check answers true
\* iff some sequence of legal connections removes every tile, and then every
\* order of removals does, so the verdict does not depend on the pair that
\* is removed first.
C27_GreedyEliminationExact ==
  (op = "isBoardSolvable" /\ AtMostTwoOfEach)
    => /\ verdict <=> Clearable(grid)
       /\ verdict => EveryOrderClears(grid)

\* A board of two pairs that can be cleared, where the first move can be
\* either pair.
C27_Witness ==
  /\ op = "isBoardSolvable"
  /\ AtMostTwoOfEach
  /\ verdict
  /\ \A patternId \in 1..NumPatterns :
       \E a \in CellsOfPattern(patternId), b \in CellsOfPattern(patternId) :
         a # b /\ Truthy(canConnect(Algorithm, a, b))

\* The position a point of a path names.
PositionAt(point) == <<point.y, point.x>>

\* C28: every path getConnectionPath returns for two distinct visible,
\* unmatched cells is a legal route on the grid: consecutive points differ
\* and share a row or a column, the cells strictly between them are empty,
\* and every interior point is an empty cell inside the grid.
C28_ReturnedPathIsLegal ==
  (/\ op = "getConnectionPath"
   /\ arg1 # arg2 /\ OnBoard(arg1) /\ OnBoard(arg2)
   /\ path # NullPath)
    => /\ \A i \in 2..(Len(path) - 1) :
            /\ PositionAt(path[i]) \in GridPositions
            /\ EmptyAt(PositionAt(path[i]))
       /\ \A i \in 1..(Len(path) - 1) :
            /\ path[i] # path[i + 1]
            /\ path[i].x = path[i + 1].x \/ path[i].y = path[i + 1].y
            /\ \A x \in StrictlyBetween(PositionAt(path[i]), PositionAt(path[i + 1])) :
                 EmptyAt(x)

\* A path with two turns between two tiles of one row, around a tile that
\* stands between them.
C28_Witness ==
  /\ op = "getConnectionPath"
  /\ arg1 # arg2 /\ OnBoard(arg1) /\ OnBoard(arg2)
  /\ path # NullPath
  /\ Len(path) = 4
  /\ arg1.row = arg2.row
  /\ \E x \in StrictlyBetween(PositionOf(arg1), PositionOf(arg2)) : ~EmptyAt(x)

\* F: the number of visible unmatched cells of the grid.
VisibleUnmatched == Cardinality({cell \in GridCells(grid) : OnBoard(cell)})

\* C29: simulateElimination never exhausts its bound of 2 x totalCells
\* iterations: on every grid it returns from inside the loop, after at most
\* floor(F / 2) + 1 iterations, F being the number of visible unmatched cells.
C29_EliminationReturnsInsideLoop ==
  op \in {"simulateElimination", "isBoardSolvable"}
    => /\ ~simulation.exhausted
       /\ simulation.iterations <= (VisibleUnmatched \div 2) + 1
       /\ simulation.iterations
            < 2 * Cardinality(DOMAIN grid) * Cardinality(DOMAIN grid[0])

\* A run that reaches the bound of the claim: two pairs are removed and the
\* third iteration finds no pair.
C29_Witness ==
  /\ op = "simulateElimination"
  /\ VisibleUnmatched = 4
  /\ simulation.iterations = 3
  /\ verdict

====
